---- MODULE Spec2Model ----
(***************************************************************************)
(* A model of nianalysis.pipeline.Pipeline: the wiring of a pipeline's     *)
(* declared inputs and outputs, the selection of the sessions to process,  *)
(* the subject/visit iterators and the connection to the archive.          *)
(***************************************************************************)
EXTENDS Integers, Sequences, FiniteSets, TLC

VARIABLES
    \* ---- Pipeline wiring (pipeline.py:73-120, 601-642, 916-943)
    inputs,               \* self._inputs: a list of specs, and of names once add_input ran
    outputs,              \* the names of self._outputs (all multiplicities)
    unconnected_inputs,   \* self._unconnected_inputs
    unconnected_outputs,  \* self._unconnected_outputs
    input_edges,          \* name -> number of edges inputnode.name -> node in self._workflow
    output_edges,         \* names with an edge node -> outputnode.name in self._workflow
    op,                   \* the last method called
    arg,                  \* its argument
    result,               \* how it ended: "ok" or the exception raised
    \* ---- Selection of the sessions to process (pipeline.py:551-593)
    project,              \* the Project loaded from the archive
    visit_ids,            \* the visit_ids argument: <<>> for None, <<ids>> for a collection
    reprocess,            \* the reprocess argument: "False", "True" or "all"
    sessions_to_process,  \* what _sessions_to_process returned ({} before the call)
    \* ---- The iterators (pipeline.py:441-480)
    pipeline_name,        \* self._name
    subjects_node,        \* the InputSubjects node, <<>> before it is created
    sessions_node,        \* the InputSessions node, <<>> before it is created
    workflow_edges,       \* the edges connected in the workflow passed in
    \* ---- The connection to the archive (pipeline.py:256-439)
    stack,                \* the connect_to_archive calls in progress, innermost last
    connected_prereqs,    \* the dict connected_prereqs: a set of <<name, pipeline, report>>
    workflow_nodes,       \* the nodes created for, or added to, complete_workflow
    archive_queries,      \* the number of calls of archive.project
    sources,              \* the nodes archive.source returned
    sinks,                \* the nodes archive.sink returned
    log,                  \* the steps taken so far, as <<depth, pipeline name, step>>
    \* ---- run and submit (pipeline.py:162-215)
    entry_point,          \* the method in progress or ended: NONE, "run" or "submit"
    engine_runs,          \* the plugin of each complete_workflow.run() call
    \* ---- Calls of connect_to_archive by several callers (pipeline.py:256-346)
    calls,                \* caller -> its connect_to_archive calls in progress
    dicts                 \* the connected_prereqs dicts created, in order of creation

wireVars == <<inputs, outputs, unconnected_inputs, unconnected_outputs,
              input_edges, output_edges>>
callVars == <<op, arg, result>>
selVars == <<project, visit_ids, reprocess, sessions_to_process>>
iterVars == <<pipeline_name, subjects_node, sessions_node, workflow_edges>>
connVars == <<stack, connected_prereqs, workflow_nodes, archive_queries,
              sources, sinks, log>>
runVars == <<entry_point, engine_runs>>
cacheVars == <<calls, dicts>>
vars == <<wireVars, callVars, selVars, iterVars, connVars, runVars, cacheVars>>

(***************************************************************************)
(* Bounds of the model                                                     *)
(***************************************************************************)
\* the most inputs, and the most outputs, a pipeline is constructed with
MaxDeclared == 2
\* the longest self._inputs grows by add_input
MaxInputs == 3
\* the most nodes one pipeline input is connected to
MaxFanout == 2
\* the number of subjects of the project
NSubjects == 2

(***************************************************************************)
(* The study's dataset specs                                               *)
(***************************************************************************)
\* self.study.dataset_spec_names()
DatasetSpecNames ==
    {"raw", "preproc", "brain", "subj_avg", "visit_tmpl", "proj_atlas"}
\* self.study.dataset_spec(name).multiplicity
multiplicity(name) ==
    CASE name = "subj_avg" -> "per_subject"
      [] name = "visit_tmpl" -> "per_visit"
      [] name = "proj_atlas" -> "per_project"
      [] OTHER -> "per_session"
\* a name that is no dataset spec of the study
UnknownName == "zz"
\* the names the wiring calls are made with
WireNames == {"raw", "preproc", "brain"}
CallNames == WireNames \cup {UnknownName}

NONE == "None"

\* the duplicate-free sequences over S of length at most n
RECURSIVE SeqsNoDup(_, _)
SeqsNoDup(S, n) ==
    IF n = 0 THEN {<<>>}
    ELSE {<<>>} \cup
         UNION {{<<x>> \o t : t \in SeqsNoDup(S \ {x}, n - 1)} : x \in S}

Range(s) == {s[i] : i \in 1..Len(s)}

\* an element of self._inputs: a DatasetSpec (is_spec) or, after add_input, a str
SpecEntry(n) == [name |-> n, is_spec |-> TRUE]
StrEntry(n) == [name |-> n, is_spec |-> FALSE]

\* the names of the elements of self._inputs, the declared inputs
DeclaredInputs == {inputs[i].name : i \in 1..Len(inputs)}

\* `name in self.input_names`: the generator (i.name for i in self.inputs) is
\* consumed in order; a str element has no attribute name
RECURSIVE input_names_contains(_, _)
input_names_contains(ins, name) ==
    IF ins = <<>> THEN "False"
    ELSE IF ~Head(ins).is_spec THEN "AttributeError"
    ELSE IF Head(ins).name = name THEN "True"
    ELSE input_names_contains(Tail(ins), name)

\* the selection has not been called, and there is no project
SelIdle ==
    /\ project = NONE
    /\ visit_ids = <<>>
    /\ reprocess = "False"
    /\ sessions_to_process = {}

\* the iterators have not been created
IterIdle ==
    /\ pipeline_name = "pipeline"
    /\ subjects_node = <<>>
    /\ sessions_node = <<>>
    /\ workflow_edges = {}

\* connect_to_archive has not been called
ConnIdle ==
    /\ stack = <<>>
    /\ connected_prereqs = {}
    /\ workflow_nodes = {}
    /\ archive_queries = 0
    /\ sources = {}
    /\ sinks = {}
    /\ log = <<>>

\* neither run nor submit has been called, and no caller has called
\* connect_to_archive beside the one of stack
RunIdle ==
    /\ entry_point = NONE
    /\ engine_runs = <<>>
    /\ calls = <<>>
    /\ dicts = <<>>

(***************************************************************************)
(* Pipeline.__init__: the sets of unconnected names after construction     *)
(***************************************************************************)
WireInit ==
    /\ inputs \in {[i \in 1..Len(s) |-> SpecEntry(s[i])] :
                      s \in SeqsNoDup(WireNames, MaxDeclared)}
    /\ outputs \in {o \in SUBSET WireNames : Cardinality(o) <= MaxDeclared}
    /\ unconnected_inputs = DeclaredInputs
    /\ unconnected_outputs = outputs
    /\ input_edges = [n \in DatasetSpecNames |-> 0]
    /\ output_edges = {}
    /\ op = "init"
    /\ arg = NONE
    /\ result = "ok"
    /\ SelIdle
    /\ IterIdle
    /\ ConnIdle
    /\ RunIdle

(***************************************************************************)
(* Pipeline.connect_input                                                  *)
(***************************************************************************)
connect_input(spec_name) ==
    LET found == input_names_contains(inputs, spec_name) IN
    /\ op' = "connect_input"
    /\ arg' = spec_name
    /\ UNCHANGED <<selVars, iterVars, connVars, runVars, cacheVars>>
    /\ IF found = "AttributeError"
       THEN /\ result' = "AttributeError"
            /\ UNCHANGED wireVars
       ELSE IF found = "False"
       \* the assertion's message joins self._inputs, which holds specs, not strings
       THEN /\ result' = IF inputs = <<>> THEN "AssertionError" ELSE "TypeError"
            /\ UNCHANGED wireVars
       ELSE /\ input_edges[spec_name] < MaxFanout
            /\ input_edges' = [input_edges EXCEPT ![spec_name] = @ + 1]
            /\ unconnected_inputs' = unconnected_inputs \ {spec_name}
            /\ result' = "ok"
            /\ UNCHANGED <<inputs, outputs, unconnected_outputs, output_edges>>

(***************************************************************************)
(* Pipeline.connect_output                                                 *)
(***************************************************************************)
\* connect_output without its second assertion
connect_output_rewire(spec_name) ==
    /\ op' = "connect_output"
    /\ arg' = spec_name
    /\ UNCHANGED <<selVars, iterVars, connVars, runVars, cacheVars>>
    /\ IF spec_name \notin outputs
       THEN /\ result' = "AssertionError"
            /\ UNCHANGED wireVars
       ELSE /\ output_edges' = output_edges \cup {spec_name}
            /\ unconnected_outputs' = unconnected_outputs \ {spec_name}
            /\ result' = "ok"
            /\ UNCHANGED <<inputs, outputs, unconnected_inputs, input_edges>>

connect_output(spec_name) ==
    /\ op' = "connect_output"
    /\ arg' = spec_name
    /\ UNCHANGED <<selVars, iterVars, connVars, runVars, cacheVars>>
    /\ IF spec_name \notin outputs
       THEN /\ result' = "AssertionError"
            /\ UNCHANGED wireVars
       ELSE IF spec_name \notin unconnected_outputs
       THEN /\ result' = "AssertionError"
            /\ UNCHANGED wireVars
       ELSE /\ output_edges' = output_edges \cup {spec_name}
            /\ unconnected_outputs' = unconnected_outputs \ {spec_name}
            /\ result' = "ok"
            /\ UNCHANGED <<inputs, outputs, unconnected_inputs, input_edges>>

(***************************************************************************)
(* Pipeline.add_input                                                      *)
(***************************************************************************)
add_input(input_name) ==
    /\ op' = "add_input"
    /\ arg' = input_name
    /\ UNCHANGED <<selVars, iterVars, connVars, runVars, cacheVars>>
    /\ IF input_name \notin DatasetSpecNames
       THEN /\ result' = "NiAnalysisDatasetNameError"
            /\ UNCHANGED wireVars
       ELSE /\ Len(inputs) < MaxInputs
            /\ inputs' = Append(inputs, StrEntry(input_name))
            /\ result' = "ok"
            /\ UNCHANGED <<outputs, unconnected_inputs, unconnected_outputs,
                           input_edges, output_edges>>

(***************************************************************************)
(* Pipeline.assert_connected                                               *)
(***************************************************************************)
assert_connected_result ==
    IF unconnected_inputs # {} THEN "AssertionError"
    ELSE IF unconnected_outputs # {} THEN "AssertionError"
    ELSE "ok"

assert_connected ==
    /\ op' = "assert_connected"
    /\ arg' = NONE
    /\ result' = assert_connected_result
    /\ UNCHANGED <<wireVars, selVars, iterVars, connVars, runVars, cacheVars>>

WireConnectInput == \E n \in CallNames : connect_input(n)
WireConnectOutput == \E n \in CallNames : connect_output(n)
WireAddInput == \E n \in CallNames : add_input(n)

WireNext ==
    \/ WireConnectInput
    \/ WireConnectOutput
    \/ WireAddInput
    \/ assert_connected

SpecWire == WireInit /\ [][WireNext]_vars

(***************************************************************************)
(* Claims about the wiring                                                 *)
(***************************************************************************)
\* a declared name with no edge to or from the pipeline's input/output node
UnwiredInputs == {n \in DeclaredInputs : input_edges[n] = 0}
UnwiredOutputs == outputs \ output_edges

\* C1: assert_connected fails if and only if at least one declared input or
\* output name has not been wired, whatever connect_input, connect_output and
\* add_input calls came before.
C1_AssertFailsIffUnwired ==
    op = "assert_connected" =>
        (result # "ok" <=> (UnwiredInputs # {} \/ UnwiredOutputs # {}))

\* C1, where the code departs from it: every name declared at construction is
\* wired, a name added by add_input is not, and assert_connected passes.
C1_AddedInputUnnoticed ==
    /\ op = "assert_connected"
    /\ result = "ok"
    /\ UnwiredInputs # {}

\* C2 as stated: wiring an already wired declared name, input or output, a
\* second time is rejected and leaves the unconnected names as they were.
C2_RewireRejected ==
    [][((op' = "connect_output" /\ arg' \in output_edges)
        \/ (op' = "connect_input" /\ arg' \in DatasetSpecNames
            /\ input_edges[arg'] > 0))
       => (result' # "ok"
           /\ UNCHANGED <<unconnected_inputs, unconnected_outputs>>)]_vars

\* C2 amended: wiring an already wired output a second time is rejected with
\* an AssertionError and changes nothing of the pipeline; wiring an already
\* wired input again is accepted (an input may feed several nodes), adds an
\* edge and leaves the unconnected names as they were.
C2_RewireOutputRejected ==
    [][/\ (op' = "connect_output" /\ arg' \in output_edges)
          => (result' = "AssertionError" /\ UNCHANGED wireVars)
       /\ (op' = "connect_input" /\ arg' \in DatasetSpecNames
           /\ input_edges[arg'] > 0)
          => (/\ result' = "ok"
              /\ input_edges'[arg'] = input_edges[arg'] + 1
              /\ UNCHANGED <<unconnected_inputs, unconnected_outputs>>)]_vars

\* C2: an output was wired twice and the second call was rejected
C2_OutputRewired ==
    /\ op = "connect_output"
    /\ arg \in output_edges
    /\ result = "AssertionError"
    /\ \E n \in DatasetSpecNames : input_edges[n] = 2

(***************************************************************************)
(* The project loaded from the archive                                     *)
(***************************************************************************)
Subjects == 1..NSubjects
\* the visit ids of the project
Visits == {"1", "2"}
\* a session: its visit id and the id of its subject
Session(s, v) == [subject |-> s, id |-> v]
AllCells == {Session(s, v) : s \in Subjects, v \in Visits}

\* dataset.prefixed_name: the name a dataset of the study has in the archive
StudyName == "study"
prefixed_name(name) == <<StudyName, name>>

\* the outputs the model's pipelines produce, one per multiplicity
OutputNames == {"brain", "subj_avg", "visit_tmpl", "proj_atlas"}
OfMult(names, mults) == {prefixed_name(n) : n \in {m \in names : multiplicity(m) \in mults}}

\* The projects of the model.  The code only tests whether the prefixed names
\* of the pipeline's outputs are in a name set, so only these names are listed,
\* each where the archive keeps it: in a session the per_session ones, in a
\* subject the per_subject ones, in a visit the per_visit ones, in the
\* project the per_project ones.
Projects(outs) ==
    UNION {
        [subjects : {Subjects},
         sessions : {S},
         session_names : [S -> SUBSET OfMult(outs, {"per_session"})],
         subject_names : [Subjects -> SUBSET OfMult(outs, {"per_subject"})],
         visit_names : [Visits -> SUBSET OfMult(outs, {"per_visit"})],
         dataset_names : SUBSET OfMult(outs, {"per_project"})]
        : S \in SUBSET AllCells}

\* sub.sessions
sessions_of(proj, sub) == {s \in proj.sessions : s.subject = sub}

\* all_sessions = list(chain(*[s.sessions for s in all_subjects]))
all_sessions(proj) == UNION {sessions_of(proj, sub) : sub \in proj.subjects}

\* filter_sessions ignoring visit_ids
filter_sessions_none(sessions, vids) == sessions

\* filter_sessions, the closure over visit_ids
filter_sessions(sessions, vids) ==
    IF vids = <<>> THEN sessions ELSE {s \in sessions : s.id \in vids[1]}

\* the sessions one output adds to sessions_to_process (lines 583-590)
output_sessions(proj, output, vids) ==
    IF multiplicity(output) \in {"per_subject", "per_visit"}
    THEN UNION {filter_sessions(sessions_of(proj, sub), vids) :
                   sub \in {x \in proj.subjects :
                               prefixed_name(output) \notin proj.subject_names[x]}}
    ELSE filter_sessions({s \in all_sessions(proj) :
                             prefixed_name(output) \notin proj.session_names[s]}, vids)

\* the loop with the visit filter applied to the sessions a missing
\* per_project output selects
RECURSIVE outputs_loop_filtered(_, _, _, _)
outputs_loop_filtered(proj, outs, vids, acc) ==
    IF outs = <<>> THEN acc
    ELSE IF multiplicity(Head(outs)) = "per_project"
    THEN IF prefixed_name(Head(outs)) \notin proj.dataset_names
         THEN filter_sessions(all_sessions(proj), vids)
         ELSE outputs_loop_filtered(proj, Tail(outs), vids, acc)
    ELSE outputs_loop_filtered(proj, Tail(outs), vids,
                               acc \cup output_sessions(proj, Head(outs), vids))

\* the loop over self.outputs (lines 576-593), outs in the order of iteration
RECURSIVE outputs_loop(_, _, _, _)
outputs_loop(proj, outs, vids, acc) ==
    IF outs = <<>> THEN acc
    ELSE IF multiplicity(Head(outs)) = "per_project"
    THEN IF prefixed_name(Head(outs)) \notin proj.dataset_names
         THEN all_sessions(proj)
         ELSE outputs_loop(proj, Tail(outs), vids, acc)
    ELSE outputs_loop(proj, Tail(outs), vids,
                      acc \cup output_sessions(proj, Head(outs), vids))

\* _sessions_to_process with reprocess taken as False
sessions_to_process_noforce(proj, outs, vids, reproc) ==
    outputs_loop(proj, outs, vids, {})

(***************************************************************************)
(* Pipeline._sessions_to_process.  The list returned holds no session      *)
(* twice and is modelled as the set of its sessions.                       *)
(***************************************************************************)
\* `if reprocess:` holds for True and for 'all'
truthy(reproc) == reproc # "False"

sessions_to_process_of(proj, outs, vids, reproc) ==
    IF truthy(reproc) THEN all_sessions(proj)
    ELSE outputs_loop(proj, outs, vids, {})

\* the orders self.outputs, a chain over the values of a dict, may come in
OutputOrders == {q \in SeqsNoDup(outputs, Cardinality(outputs)) :
                    Len(q) = Cardinality(outputs)}

\* a fully wired pipeline with the given outputs
WiredPipeline(outs) ==
    /\ inputs = <<SpecEntry("raw")>>
    /\ outputs = outs
    /\ unconnected_inputs = {}
    /\ unconnected_outputs = {}
    /\ input_edges = [n \in DatasetSpecNames |-> IF n = "raw" THEN 1 ELSE 0]
    /\ output_edges = outs

SelInit ==
    /\ \E outs \in {o \in SUBSET OutputNames :
                       o # {} /\ Cardinality(o) <= MaxDeclared} :
          /\ WiredPipeline(outs)
          /\ project \in Projects(outs)
    /\ visit_ids \in {<<>>} \cup {<<ids>> : ids \in SUBSET Visits}
    /\ reprocess \in {"False", "True", "all"}
    /\ sessions_to_process = {}
    /\ op = "init"
    /\ arg = NONE
    /\ result = "ok"
    /\ IterIdle
    /\ ConnIdle
    /\ RunIdle

Select ==
    /\ \E order \in OutputOrders :
          sessions_to_process' =
              sessions_to_process_of(project, order, visit_ids, reprocess)
    /\ op' = "_sessions_to_process"
    /\ arg' = NONE
    /\ result' = "ok"
    /\ UNCHANGED <<wireVars, project, visit_ids, reprocess, iterVars, connVars, runVars, cacheVars>>

SelNext == Select

SpecSelect == SelInit /\ [][SelNext]_vars

(***************************************************************************)
(* Claims about the selection                                              *)
(***************************************************************************)
Called == op = "_sessions_to_process"

\* the visit filter lets the session through
PassesFilter(s) == visit_ids = <<>> \/ s.id \in visit_ids[1]

\* a desired per_project output that the project does not hold
MissingProjectOutput ==
    \E o \in outputs : /\ multiplicity(o) = "per_project"
                       /\ prefixed_name(o) \notin project.dataset_names

\* C3: with reprocess set (True or 'all') _sessions_to_process returns every
\* session of every subject of the project, whatever the archive holds and
\* whatever the visit filter is.
C3_ForceSelectsAll ==
    (Called /\ reprocess \in {"True", "all"})
        => sessions_to_process = project.sessions

\* C3: a forced call whose filter lets no session through and whose output is
\* already held by a session returned that session
C3_ForcedDespiteFilter ==
    /\ Called
    /\ reprocess = "all"
    /\ visit_ids = <<{}>>
    /\ \E s \in sessions_to_process :
          prefixed_name("brain") \in project.session_names[s]

\* C4: with reprocess false, a desired per_project output absent from the
\* project's names makes the work set all the sessions of the project,
\* whatever the visit filter, the other outputs and the order of the outputs.
C4_MissingProjectOutputSelectsAll ==
    (Called /\ reprocess = "False" /\ MissingProjectOutput)
        => sessions_to_process = project.sessions

\* C4: the project output is missing, another output is desired too, and a
\* session the filter excludes that holds this other output was selected
C4_AllDespiteFilter ==
    /\ Called
    /\ reprocess = "False"
    /\ MissingProjectOutput
    /\ "brain" \in outputs
    /\ visit_ids = <<{"1"}>>
    /\ \E s \in sessions_to_process :
          s.id = "2" /\ prefixed_name("brain") \in project.session_names[s]

\* the session lacks a desired per_session output, or its subject lacks a
\* desired per_subject one
LacksSessionOrSubjectOutput(s) ==
    \E o \in outputs :
        \/ /\ multiplicity(o) = "per_session"
           /\ prefixed_name(o) \notin project.session_names[s]
        \/ /\ multiplicity(o) = "per_subject"
           /\ prefixed_name(o) \notin project.subject_names[s.subject]

\* its subject's names lack a desired per_visit output
LacksVisitOutputInSubject(s) ==
    \E o \in outputs :
        /\ multiplicity(o) = "per_visit"
        /\ prefixed_name(o) \notin project.subject_names[s.subject]

C6_VisitOutputDiffedPerVisit ==
    (/\ Called
     /\ reprocess = "False"
     /\ visit_ids = <<>>
     /\ outputs = {"visit_tmpl"}
     /\ prefixed_name("visit_tmpl") \in project.visit_names["1"]
     /\ prefixed_name("visit_tmpl") \notin project.visit_names["2"])
        => sessions_to_process = {s \in project.sessions : s.id = "2"}

\* every desired output is held at its level, by every session, subject and
\* visit, or by the project
AllOutputsPresent ==
    \A o \in outputs :
        CASE multiplicity(o) = "per_session" ->
                 \A s \in project.sessions :
                     prefixed_name(o) \in project.session_names[s]
          [] multiplicity(o) = "per_subject" ->
                 \A x \in project.subjects :
                     prefixed_name(o) \in project.subject_names[x]
          [] multiplicity(o) = "per_visit" ->
                 \A v \in Visits : prefixed_name(o) \in project.visit_names[v]
          [] OTHER -> prefixed_name(o) \in project.dataset_names

\* C7: with reprocess false a call leaves the project as it was, a second
\* call returns what the first returned, and once every desired output is
\* held at its level the call returns no session.
C7_IdempotentAndEmptyWhenPresent ==
    [][(op' = "_sessions_to_process" /\ reprocess = "False")
       => /\ project' = project
          /\ Called => sessions_to_process' = sessions_to_process
          /\ AllOutputsPresent => sessions_to_process' = {}]_vars

(***************************************************************************)
(* Pipeline._subject_and_session_iterators                                 *)
(***************************************************************************)
\* the name create_node gives a node: "{}_{}".format(self._name, name)
node_name(pipeline, node) == <<pipeline, node>>

\* all the orders a set is iterated in
Orders(S) == {q \in SeqsNoDup(S, Cardinality(S)) : Len(q) = Cardinality(S)}

\* subject_ids_to_process
subject_ids_to_process(sessions) == {s.subject : s \in sessions}

\* session_subjects: visit id -> the ids of the subjects with a session of it
session_subjects(sessions) ==
    [v \in {s.id : s \in sessions} |->
        {s.subject : s \in {t \in sessions : t.id = v}}]

\* the test with any() in place of all()
visits_uniform_any(sessions) ==
    \E v \in DOMAIN session_subjects(sessions) :
        session_subjects(sessions)[v] = subject_ids_to_process(sessions)

\* all(ss == subject_ids_to_process for ss in session_subjects.itervalues())
visits_uniform(sessions) ==
    \A v \in DOMAIN session_subjects(sessions) :
        session_subjects(sessions)[v] = subject_ids_to_process(sessions)

\* the visit ids of a list of sessions, in the order of the list
RECURSIVE session_ids(_)
session_ids(lst) ==
    IF lst = <<>> THEN <<>> ELSE <<Head(lst).id>> \o session_ids(Tail(lst))

\* subject_sessions with every visit id listed for every subject
subject_sessions_all(lst) ==
    [x \in {lst[i].subject : i \in 1..Len(lst)} |-> session_ids(lst)]

\* subject_sessions: subject id -> the visit ids of its sessions, in the order
\* of the list sessions_to_process
subject_sessions(lst) ==
    [x \in {lst[i].subject : i \in 1..Len(lst)} |->
        session_ids(SelectSeq(lst, LAMBDA s : s.subject = x))]

\* The two nodes.  lst is the list sessions_to_process; subject_order and
\* visit_order are the orders the set subjects_to_process and the keys of
\* session_subjects are iterated in.  A value of iterables is a list or a dict.
InputSubjects(pipeline, subject_order) ==
    [name |-> node_name(pipeline, "subjects"),
     itersource |-> <<>>,
     iterables |-> <<"subject_id", [kind |-> "list", value |-> subject_order]>>]

InputSessions(pipeline, lst, visit_order) ==
    IF visits_uniform(Range(lst))
    THEN [name |-> node_name(pipeline, "sessions"),
          itersource |-> <<>>,
          iterables |-> <<"visit_id", [kind |-> "list", value |-> visit_order]>>]
    ELSE [name |-> node_name(pipeline, "sessions"),
          itersource |-> <<node_name(pipeline, "subjects"), "subject_id">>,
          iterables |-> <<"visit_id",
                          [kind |-> "dict", value |-> subject_sessions(lst)]>>]

\* workflow.connect(subjects, 'subject_id', sessions, 'subject_id')
iterator_edges(pipeline) ==
    {<<node_name(pipeline, "subjects"), "subject_id",
       node_name(pipeline, "sessions"), "subject_id">>}

\* the names of the pipelines of the study
PipelineNames == {"prep", "extract", "stats"}

\* connect_to_archive calls the iterators with a list that is not empty
IterInit ==
    /\ WiredPipeline({"brain"})
    /\ project = NONE
    /\ visit_ids = <<>>
    /\ reprocess = "False"
    /\ sessions_to_process \in (SUBSET AllCells) \ {{}}
    /\ pipeline_name \in PipelineNames
    /\ subjects_node = <<>>
    /\ sessions_node = <<>>
    /\ workflow_edges = {}
    /\ op = "_sessions_to_process"
    /\ arg = NONE
    /\ result = "ok"
    /\ ConnIdle
    /\ RunIdle

subject_and_session_iterators ==
    /\ op = "_sessions_to_process"
    /\ \E lst \in Orders(sessions_to_process) :
       \E subject_order \in Orders(subject_ids_to_process(sessions_to_process)) :
       \E visit_order \in Orders(DOMAIN session_subjects(sessions_to_process)) :
          /\ subjects_node' = InputSubjects(pipeline_name, subject_order)
          /\ sessions_node' = InputSessions(pipeline_name, lst, visit_order)
    /\ workflow_edges' = workflow_edges \cup iterator_edges(pipeline_name)
    /\ op' = "_subject_and_session_iterators"
    /\ arg' = NONE
    /\ result' = "ok"
    /\ UNCHANGED <<wireVars, selVars, pipeline_name, connVars, runVars, cacheVars>>

IterNext == subject_and_session_iterators

SpecIter == IterInit /\ [][IterNext]_vars

(***************************************************************************)
(* Claims about the iterators                                              *)
(***************************************************************************)
Built == op = "_subject_and_session_iterators"

\* the visit axis is a flat list, shared by all subjects
FlatBinding ==
    /\ sessions_node.itersource = <<>>
    /\ sessions_node.iterables[2].kind = "list"
    /\ Range(sessions_node.iterables[2].value) = {s.id : s \in sessions_to_process}

\* the visit axis is a subject -> visit list mapping taken from the subject axis
SourcedBinding ==
    /\ sessions_node.itersource = <<subjects_node.name, "subject_id">>
    /\ sessions_node.iterables[2].kind = "dict"
    /\ DOMAIN sessions_node.iterables[2].value
           = subject_ids_to_process(sessions_to_process)

\* the subjects of the work set with a session of visit v, the visits of
\* subject x in the work set
SubjectsHaving(v) == {s.subject : s \in {t \in sessions_to_process : t.id = v}}
VisitsOf(x) == {s.id : s \in {t \in sessions_to_process : t.subject = x}}
SelectedVisits == {s.id : s \in sessions_to_process}
SelectedSubjects == {s.subject : s \in sessions_to_process}

\* C9: the visit axis is bound flat if and only if every selected visit id has
\* the same set of subjects in the work set, and is sourced from the subject
\* axis otherwise; two subjects with disjoint visit sets get the sourced
\* binding, subjects that all have the same visit set the flat one.
C9_FlatIffSameSubjectsPerVisit ==
    Built =>
        /\ FlatBinding <=> (\A v, w \in SelectedVisits :
                               SubjectsHaving(v) = SubjectsHaving(w))
        /\ ~FlatBinding => SourcedBinding
        /\ (\E x, y \in SelectedSubjects : VisitsOf(x) \cap VisitsOf(y) = {})
               => SourcedBinding
        /\ (\A x, y \in SelectedSubjects : VisitsOf(x) = VisitsOf(y))
               => FlatBinding

\* C9: both bindings were built, one for two subjects with disjoint visits
\* and one for two subjects with the same two visits
C9_SourcedForDisjointVisits ==
    /\ Built
    /\ SourcedBinding
    /\ \E x, y \in SelectedSubjects : VisitsOf(x) \cap VisitsOf(y) = {}
    /\ Cardinality(SelectedVisits) = 2

\* the (subject, visit) pairs the two iterators enumerate: the subject axis
\* times the flat visit list, or each subject with the visits mapped to it
EnumeratedPairs ==
    LET subs == Range(subjects_node.iterables[2].value)
        vis == sessions_node.iterables[2]
    IN IF vis.kind = "list"
       THEN {<<x, v>> : x \in subs, v \in Range(vis.value)}
       ELSE UNION {{<<x, v>> : v \in Range(vis.value[x])} :
                      x \in subs \cap DOMAIN vis.value}

\* C10: for a work set that is not empty the iterators enumerate exactly the
\* (subject, visit) pairs of its sessions, none more and none less.
C10_EnumeratesExactlyWorkSet ==
    Built =>
        /\ sessions_to_process # {}
        /\ EnumeratedPairs = {<<s.subject, s.id>> : s \in sessions_to_process}

\* C10: a work set whose subjects differ in their visits was enumerated
C10_NonUniformEnumerated ==
    /\ Built
    /\ sessions_node.iterables[2].kind = "dict"
    /\ Cardinality(sessions_to_process) = 3
    /\ Cardinality(SelectedSubjects) = 2
    /\ EnumeratedPairs # {}

(***************************************************************************)
(* The study of the connection model: three pipelines in a diamond.        *)
(*   prep:    raw -> preproc                                               *)
(*   extract: preproc -> brain                                             *)
(*   stats:   preproc, brain -> subj_avg                                   *)
(* and a fourth pipeline beside it, with outputs for a visit and for the   *)
(* project:                                                                *)
(*   atlas:   raw -> visit_tmpl, proj_atlas                                *)
(***************************************************************************)
\* self._inputs of the pipeline a study method builds, as names
pipeline_inputs(p) ==
    CASE p = "prep" -> <<"raw">>
      [] p = "atlas" -> <<"raw">>
      [] p = "warp" -> <<"raw", "visit_tmpl", "proj_atlas">>
      [] p = "extract" -> <<"preproc">>
      [] OTHER -> <<"preproc", "brain">>

\* the outputs the pipeline is constructed with
pipeline_outputs(p) ==
    CASE p = "prep" -> {"preproc"}
      [] p = "atlas" -> {"visit_tmpl", "proj_atlas"}
      [] p = "warp" -> {"warped"}
      [] p = "extract" -> {"brain"}
      [] OTHER -> {"subj_avg"}

\* default_options, as a set of <<option name, value>>
default_options(p) == IF p = "extract" THEN {} ELSE {<<"opt", 1>>}

\* self._study.dataset(name).pipeline: the producer of a dataset, NONE for an
\* acquired one
dataset_pipeline(n) ==
    CASE n = "preproc" -> "prep"
      [] n = "brain" -> "extract"
      [] n = "subj_avg" -> "stats"
      [] n \in {"visit_tmpl", "proj_atlas"} -> "atlas"
      [] n = "warped" -> "warp"
      [] OTHER -> NONE

\* self._study.dataset(name).processed
processed(n) == dataset_pipeline(n) # NONE

\* self._options after __init__: the defaults, overridden by the options passed
\* in whose name is among the defaults
construct_options(p, given) ==
    {<<d[1], IF \E g \in given : g[1] = d[1]
             THEN (CHOOSE g \in given : g[1] = d[1])[2]
             ELSE d[2]>> : d \in default_options(p)}

\* the fields __eq__ compares; the citations are those of the study method
Pipeline(p, given) ==
    [name |-> p,
     study |-> StudyName,
     inputs |-> pipeline_inputs(p),
     outputs |-> pipeline_outputs(p),
     options |-> construct_options(p, given),
     citations |-> p]

\* the study's table: dataset name -> the getter of the pipeline that
\* generates it, NONE for an acquired dataset
StudyGetters == [n \in DatasetSpecNames |-> dataset_pipeline(n)]

\* any(self._study.dataset(i).processed for i in self.inputs)
RECURSIVE any_processed(_, _)
any_processed(ins, getters) ==
    IF ins = <<>> THEN FALSE
    ELSE IF getters[Head(ins)] # NONE THEN TRUE
    ELSE any_processed(Tail(ins), getters)

\* the loop that adds the getter of every input, generated or acquired
RECURSIVE pipeline_getters_unfiltered(_, _)
pipeline_getters_unfiltered(ins, getters) ==
    IF ins = <<>> THEN {}
    ELSE {getters[Head(ins)]}
         \cup pipeline_getters_unfiltered(Tail(ins), getters)

\* the loop of prerequisities over self.inputs: pipeline_getters is a set, to
\* which the getter of each processed input is added
RECURSIVE pipeline_getters(_, _)
pipeline_getters(ins, getters) ==
    IF ins = <<>> THEN {}
    ELSE (IF getters[Head(ins)] # NONE THEN {getters[Head(ins)]} ELSE {})
         \cup pipeline_getters(Tail(ins), getters)

\* has_prerequisites
has_prerequisites(pl) == any_processed(pl.inputs, StudyGetters)

\* the prerequisites of a loop that stops after the first input
prerequisities_first_input(pl) ==
    {Pipeline(g, pl.options) :
        g \in pipeline_getters(SubSeq(pl.inputs, 1, 1), StudyGetters)}

\* prerequisities: one pipeline per distinct getter, built with self.options
prerequisities(pl) ==
    {Pipeline(g, pl.options) : g \in pipeline_getters(pl.inputs, StudyGetters)}

\* the outputs of a pipeline and of the pipelines it depends on
RECURSIVE produced_upstream(_)
produced_upstream(p) ==
    pipeline_outputs(p) \cup
    UNION {produced_upstream(dataset_pipeline(pipeline_inputs(p)[i])) :
              i \in {j \in 1..Len(pipeline_inputs(p)) :
                        processed(pipeline_inputs(p)[j])}}

(***************************************************************************)
(* Pipeline.connect_to_archive, one call per frame of the stack            *)
(***************************************************************************)
\* the local state of a call that has just been entered.  entry keeps what
\* the complete workflow, the archive nodes, the dict and the log were then.
Frame(pl, reproc, subject_ids, proj) ==
    [pipeline |-> pl,
     pc |-> "assert_connected",
     reprocess |-> reproc,
     subject_ids |-> subject_ids,
     project |-> proj,
     work |-> {},
     todo |-> {},
     reports |-> <<>>,
     entry |-> [nodes |-> workflow_nodes, edges |-> workflow_edges,
                sources |-> sources, sinks |-> sinks,
                prereqs |-> connected_prereqs, steps |-> Len(log)]]

Depth == Len(stack)
Top == stack[Depth]
Callers == SubSeq(stack, 1, Depth - 1)
Running(pc) == Depth > 0 /\ Top.pc = pc
Step(what) == <<Depth, Top.pipeline.name, what>>
\* the step of selecting sessions, with the sessions selected
SelectStep(work) == <<Depth, Top.pipeline.name, "_sessions_to_process", work>>
\* the step of asking for a prerequisite, with the pipeline asked for
RequestStep(what, prereq) == <<Depth, Top.pipeline.name, what, prereq>>

\* a field of a node, and the field a source or a sink has for a dataset
field(f) == <<f>>
suffixed(n, suffix) == <<n, suffix>>
\* the nodes with a multiplicity in their name
outputnode(p, mult) == <<p, mult, "outputnode">>
sink_name(p, mult) == <<p, mult, "sink">>

\* the call of the top frame goes on at pc with its fields changed
Continue(f) == stack' = [stack EXCEPT ![Depth] = f]

\* an exception leaves every call in progress; step is the step that raised
RaiseStep(step) ==
    /\ stack' = <<>>
    /\ result' = step[3]
    /\ log' = Append(log, step)
    /\ UNCHANGED connected_prereqs

Raise(exception) == RaiseStep(Step(exception))

\* the return of a call whose caller appends the report to its list and
\* leaves the dict as it is
Return_unstored(value) ==
    IF Depth = 1
    THEN /\ stack' = <<>>
         /\ result' = IF value = <<NONE>> THEN NONE ELSE "report"
         /\ UNCHANGED connected_prereqs
    ELSE /\ result' = result
         /\ UNCHANGED connected_prereqs
         /\ IF value = <<NONE>>
            THEN stack' = Callers
            ELSE stack' = [Callers EXCEPT ![Depth - 1].reports =
                              Append(@, value)]

\* the return of a call whose caller stores what it gets, None too
Return_stores_None(value) ==
    IF Depth = 1
    THEN /\ stack' = <<>>
         /\ result' = IF value = <<NONE>> THEN NONE ELSE "report"
         /\ UNCHANGED connected_prereqs
    ELSE /\ result' = result
         /\ stack' = [Callers EXCEPT ![Depth - 1].reports = Append(@, value)]
         /\ connected_prereqs' =
                {e \in connected_prereqs : e[1] # Top.pipeline.name}
                \cup {<<Top.pipeline.name, Top.pipeline, value>>}

\* the call of the top frame returns value, NONE or a report node.  The
\* caller, if there is one, stores a report in the dict and in its list
\* (pipeline.py:339-341).
Return(value) ==
    IF Depth = 1
    THEN /\ stack' = <<>>
         /\ result' = IF value = <<NONE>> THEN NONE ELSE "report"
         /\ UNCHANGED connected_prereqs
    ELSE /\ result' = result
         /\ IF value = <<NONE>>
            THEN /\ stack' = Callers
                 /\ UNCHANGED connected_prereqs
            ELSE /\ stack' = [Callers EXCEPT ![Depth - 1].reports =
                                 Append(@, value)]
                 /\ connected_prereqs' =
                        {e \in connected_prereqs : e[1] # Top.pipeline.name}
                        \cup {<<Top.pipeline.name, Top.pipeline, value>>}

\* self.assert_connected(): the pipeline of the outermost call is the one
\* the wiring variables describe, a prerequisite is returned fully wired by
\* its study method
ConnAssertConnected ==
    /\ Running("assert_connected")
    /\ op' = "assert_connected"
    /\ IF Depth = 1 /\ assert_connected_result # "ok"
       THEN Raise("AssertionError")
       ELSE /\ Continue([Top EXCEPT !.pc = IF Top.project = NONE
                                           THEN "project"
                                           ELSE "_sessions_to_process"])
            /\ log' = Append(log, Step("assert_connected"))
            /\ UNCHANGED <<result, connected_prereqs>>
    /\ UNCHANGED <<runVars, cacheVars, wireVars, arg, selVars, iterVars, workflow_nodes,
                   archive_queries, sources, sinks>>

\* project = self._study.archive.project(...)
ConnProject ==
    /\ Running("project")
    /\ op' = "project"
    /\ archive_queries' = archive_queries + 1
    /\ Continue([Top EXCEPT !.project = "loaded",
                            !.pc = "_sessions_to_process"])
    /\ log' = Append(log, Step("project"))
    /\ UNCHANGED <<runVars, cacheVars, wireVars, arg, result, selVars, iterVars, connected_prereqs,
                   workflow_nodes, sources, sinks>>

\* the selection with complete_workflow.add_nodes ahead of the test for an
\* empty list
ConnSelect_nodes_first ==
    /\ Running("_sessions_to_process")
    /\ op' = "_sessions_to_process"
    /\ workflow_nodes' = workflow_nodes \cup {<<Top.pipeline.name>>}
    /\ \E order \in Orders(Top.pipeline.outputs) :
          LET work == sessions_to_process_of(project, order, visit_ids,
                                             Top.reprocess)
          IN  /\ sessions_to_process' = work
              /\ IF work = {}
                 THEN /\ Return(<<NONE>>)
                      /\ log' = Append(log, Step("return None"))
                 ELSE /\ Continue([Top EXCEPT !.work = work,
                                              !.pc = "add_nodes"])
                      /\ log' = Append(log, SelectStep(work))
                      /\ UNCHANGED <<result, connected_prereqs>>
    /\ UNCHANGED <<runVars, cacheVars, wireVars, arg, project, visit_ids, reprocess, iterVars,
                   archive_queries, sources, sinks>>

\* the selection with the sessions of the subjects in subject_ids only, when
\* subject_ids are passed
ConnSelect_subject_ids ==
    /\ Running("_sessions_to_process")
    /\ op' = "_sessions_to_process"
    /\ \E order \in Orders(Top.pipeline.outputs) :
          LET found == sessions_to_process_of(project, order, visit_ids,
                                              Top.reprocess)
              work == IF Top.subject_ids = <<>> THEN found
                      ELSE {ses \in found :
                               ses.subject \in Top.subject_ids[1]}
          IN  /\ sessions_to_process' = work
              /\ IF work = {}
                 THEN /\ Return(<<NONE>>)
                      /\ log' = Append(log, Step("return None"))
                 ELSE /\ Continue([Top EXCEPT !.work = work,
                                              !.pc = "add_nodes"])
                      /\ log' = Append(log, SelectStep(work))
                      /\ UNCHANGED <<result, connected_prereqs>>
    /\ UNCHANGED <<runVars, cacheVars, wireVars, arg, project, visit_ids, reprocess, iterVars,
                   workflow_nodes, archive_queries, sources, sinks>>

\* sessions_to_process = self._sessions_to_process(...), and the return of
\* None when there is none (pipeline.py:305-311)
ConnSelect ==
    /\ Running("_sessions_to_process")
    /\ op' = "_sessions_to_process"
    /\ \E order \in Orders(Top.pipeline.outputs) :
          LET work == sessions_to_process_of(project, order, visit_ids,
                                             Top.reprocess)
          IN  /\ sessions_to_process' = work
              /\ IF work = {}
                 THEN /\ Return(<<NONE>>)
                      /\ log' = Append(log, Step("return None"))
                 ELSE /\ Continue([Top EXCEPT !.work = work,
                                              !.pc = "add_nodes"])
                      /\ log' = Append(log, SelectStep(work))
                      /\ UNCHANGED <<result, connected_prereqs>>
    /\ UNCHANGED <<runVars, cacheVars, wireVars, arg, project, visit_ids, reprocess, iterVars,
                   workflow_nodes, archive_queries, sources, sinks>>

\* the nodes added and the loop over the prerequisites left out
ConnAddNodes_no_prerequisites ==
    /\ Running("add_nodes")
    /\ op' = "_subject_and_session_iterators"
    /\ LET p == Top.pipeline.name
       IN  /\ workflow_nodes' = workflow_nodes \cup
                  {<<p>>, node_name(p, "subjects"), node_name(p, "sessions")}
           /\ workflow_edges' = workflow_edges \cup iterator_edges(p)
    /\ Continue([Top EXCEPT !.pc = "source"])
    /\ log' = Append(log, Step("add_nodes"))
    /\ UNCHANGED <<runVars, cacheVars, wireVars, arg, result, selVars, pipeline_name, subjects_node,
                   sessions_node, connected_prereqs, archive_queries, sources,
                   sinks>>

\* complete_workflow.add_nodes([self._workflow]) and the two iterator nodes;
\* then the loop over the prerequisites is entered, if there are any
ConnAddNodes ==
    /\ Running("add_nodes")
    /\ op' = "_subject_and_session_iterators"
    /\ LET p == Top.pipeline.name
       IN  /\ workflow_nodes' = workflow_nodes \cup
                  {<<p>>, node_name(p, "subjects"), node_name(p, "sessions")}
           /\ workflow_edges' = workflow_edges \cup iterator_edges(p)
    /\ Continue(IF has_prerequisites(Top.pipeline)
                THEN [Top EXCEPT !.pc = "prerequisites",
                                 !.todo = prerequisities(Top.pipeline)]
                ELSE [Top EXCEPT !.pc = "source"])
    /\ log' = Append(log, Step("add_nodes"))
    /\ UNCHANGED <<runVars, cacheVars, wireVars, arg, result, selVars, pipeline_name, subjects_node,
                   sessions_node, connected_prereqs, archive_queries, sources,
                   sinks>>

\* a prerequisite whose name is in connected_prereqs: its report is taken
\* from the dict, unless the pipeline stored there differs (pipeline.py:323-330)
ConnPrereqConnected ==
    /\ Running("prerequisites")
    /\ op' = "connected_prereqs"
    /\ \E prereq \in Top.todo :
       \E e \in connected_prereqs :
          /\ e[1] = prereq.name
          /\ IF e[2] # prereq
             THEN RaiseStep(RequestStep("NiAnalysisError", prereq))
             ELSE /\ Continue([Top EXCEPT !.todo = @ \ {prereq},
                                          !.reports = Append(@, e[3])])
                  /\ log' = Append(log,
                                   RequestStep("connected_prereqs", prereq))
                  /\ UNCHANGED <<result, connected_prereqs>>
    /\ UNCHANGED <<runVars, cacheVars, wireVars, arg, selVars, iterVars, workflow_nodes,
                   archive_queries, sources, sinks>>

\* the call of a prerequisite with the caller's reprocess passed on as it is
ConnPrereqCall_same_reprocess ==
    /\ Running("prerequisites")
    /\ op' = "connect_to_archive"
    /\ \E prereq \in Top.todo :
          /\ \A e \in connected_prereqs : e[1] # prereq.name
          /\ stack' = Append(
                 [stack EXCEPT ![Depth] = [Top EXCEPT !.todo = @ \ {prereq}]],
                 Frame(prereq, Top.reprocess,
                       <<subject_ids_to_process(Top.work)>>, "loaded"))
          /\ log' = Append(log, RequestStep("connect_to_archive", prereq))
    /\ UNCHANGED <<runVars, cacheVars, wireVars, arg, result, selVars, iterVars, connected_prereqs,
                   workflow_nodes, archive_queries, sources, sinks>>

\* the call of a prerequisite by a loop that does not move on to the next
\* prerequisite
ConnPrereqCall_again ==
    /\ Running("prerequisites")
    /\ op' = "connect_to_archive"
    /\ \E prereq \in Top.todo :
          /\ \A e \in connected_prereqs : e[1] # prereq.name
          /\ stack' = Append(
                 stack,
                 Frame(prereq,
                       IF Top.reprocess = "all" THEN "all" ELSE "False",
                       <<subject_ids_to_process(Top.work)>>,
                       "loaded"))
          /\ log' = Append(log, RequestStep("connect_to_archive", prereq))
    /\ UNCHANGED <<runVars, cacheVars, wireVars, arg, result, selVars, iterVars, connected_prereqs,
                   workflow_nodes, archive_queries, sources, sinks>>

\* a prerequisite whose name is not in the dict: prereq.connect_to_archive
\* is entered (pipeline.py:331-341)
ConnPrereqCall ==
    /\ Running("prerequisites")
    /\ op' = "connect_to_archive"
    /\ \E prereq \in Top.todo :
          /\ \A e \in connected_prereqs : e[1] # prereq.name
          /\ stack' = Append(
                 [stack EXCEPT ![Depth] = [Top EXCEPT !.todo = @ \ {prereq}]],
                 Frame(prereq,
                       IF Top.reprocess = "all" THEN "all" ELSE "False",
                       <<subject_ids_to_process(Top.work)>>,
                       "loaded"))
          /\ log' = Append(log, RequestStep("connect_to_archive", prereq))
    /\ UNCHANGED <<runVars, cacheVars, wireVars, arg, result, selVars, iterVars, connected_prereqs,
                   workflow_nodes, archive_queries, sources, sinks>>

\* 'in{}'.format(i)
in_field(i) == <<"in", ToString(i)>>

\* the Merge node of the reports left unconnected to the subjects iterator
ConnPrereqReports_ungated ==
    /\ Running("prerequisites")
    /\ Top.todo = {}
    /\ op' = "prereq_reports"
    /\ LET p == Top.pipeline.name
           prereq_reports == node_name(p, "prereq_reports")
       IN  IF Top.reports # <<>>
           THEN /\ workflow_nodes' = workflow_nodes \cup {prereq_reports}
                /\ workflow_edges' = workflow_edges \cup
                       {<<Top.reports[i], field("subject_session_pairs"),
                          prereq_reports, in_field(i)>> :
                            i \in 1..Len(Top.reports)}
           ELSE UNCHANGED <<workflow_nodes, workflow_edges>>
    /\ Continue([Top EXCEPT !.pc = "source"])
    /\ log' = Append(log, Step("prereq_reports"))
    /\ UNCHANGED <<runVars, cacheVars, wireVars, arg, result, selVars, pipeline_name, subjects_node,
                   sessions_node, connected_prereqs, archive_queries, sources,
                   sinks>>

\* after the loop: the Merge node of the reports, if there is a report
ConnPrereqReports ==
    /\ Running("prerequisites")
    /\ Top.todo = {}
    /\ op' = "prereq_reports"
    /\ LET p == Top.pipeline.name
           prereq_reports == node_name(p, "prereq_reports")
       IN  IF Top.reports # <<>>
           THEN /\ workflow_nodes' = workflow_nodes \cup {prereq_reports}
                /\ workflow_edges' = workflow_edges \cup
                       {<<Top.reports[i], field("subject_session_pairs"),
                          prereq_reports, in_field(i)>> :
                            i \in 1..Len(Top.reports)} \cup
                       {<<prereq_reports, field("out"),
                          node_name(p, "subjects"), field("prereq_reports")>>}
           ELSE UNCHANGED <<workflow_nodes, workflow_edges>>
    /\ Continue([Top EXCEPT !.pc = "source"])
    /\ log' = Append(log, Step("prereq_reports"))
    /\ UNCHANGED <<runVars, cacheVars, wireVars, arg, result, selVars, pipeline_name, subjects_node,
                   sessions_node, connected_prereqs, archive_queries, sources,
                   sinks>>

\* the edges from the sessions iterator and the source to the input node
\* (pipeline.py:368-397); the formats of the study's datasets are those of
\* the pipelines' inputs, so no converter node is inserted
source_edges(pl) ==
    LET p == pl.name
        sessions == node_name(p, "sessions")
        inputnode == node_name(p, "inputnode")
        source == node_name(p, "source")
    IN  {<<sessions, field(f), n, field(f)>> :
            f \in {"subject_id", "visit_id"}, n \in {inputnode, source}}
        \cup {<<source, suffixed(pl.inputs[i], "OUTPUT_SUFFIX"),
                inputnode, field(pl.inputs[i])>> : i \in 1..Len(pl.inputs)}

\* the binding of the source with the error annotated by the outermost
\* pipeline
ConnSource_names_caller ==
    /\ Running("source")
    /\ op' = "source"
    /\ \/ /\ \E i \in 1..Len(Top.pipeline.inputs) :
                ~processed(Top.pipeline.inputs[i])
          /\ RaiseStep(<<Depth, stack[1].pipeline.name,
                      "NiAnalysisMissingDatasetError">>)
          /\ UNCHANGED <<workflow_nodes, workflow_edges, sources>>
       \/ /\ sources' = sources \cup {node_name(Top.pipeline.name, "source")}
          /\ workflow_nodes' = workflow_nodes \cup
                 {node_name(Top.pipeline.name, "source")}
          /\ workflow_edges' = workflow_edges \cup source_edges(Top.pipeline)
          /\ Continue([Top EXCEPT !.pc = "sinks"])
          /\ log' = Append(log, Step("source"))
          /\ UNCHANGED <<result, connected_prereqs>>
    /\ UNCHANGED <<runVars, cacheVars, wireVars, arg, selVars, pipeline_name, subjects_node,
                   sessions_node, archive_queries, sinks>>

\* the binding of the source while the loop over the prerequisites has
\* still to run
ConnSource_early ==
    /\ Running("prerequisites") \/ Running("source")
    /\ op' = "source"
    /\ sources' = sources \cup {node_name(Top.pipeline.name, "source")}
    /\ workflow_nodes' = workflow_nodes \cup
           {node_name(Top.pipeline.name, "source")}
    /\ workflow_edges' = workflow_edges \cup source_edges(Top.pipeline)
    /\ Continue([Top EXCEPT !.pc = "sinks"])
    /\ log' = Append(log, Step("source"))
    /\ UNCHANGED <<result, connected_prereqs>>
    /\ UNCHANGED <<runVars, cacheVars, wireVars, arg, selVars, pipeline_name, subjects_node,
                   sessions_node, archive_queries, sinks>>

\* source = self._study.archive.source(...).  The archive raises
\* NiAnalysisMissingDatasetError when an acquired input of the pipeline was
\* not given to the study; the error is raised again with the pipeline's name
\* added to its message.
ConnSource ==
    /\ Running("source")
    /\ op' = "source"
    /\ \/ /\ \E i \in 1..Len(Top.pipeline.inputs) :
                ~processed(Top.pipeline.inputs[i])
          /\ Raise("NiAnalysisMissingDatasetError")
          /\ UNCHANGED <<workflow_nodes, workflow_edges, sources>>
       \/ /\ sources' = sources \cup {node_name(Top.pipeline.name, "source")}
          /\ workflow_nodes' = workflow_nodes \cup
                 {node_name(Top.pipeline.name, "source")}
          /\ workflow_edges' = workflow_edges \cup source_edges(Top.pipeline)
          /\ Continue([Top EXCEPT !.pc = "sinks"])
          /\ log' = Append(log, Step("source"))
          /\ UNCHANGED <<result, connected_prereqs>>
    /\ UNCHANGED <<runVars, cacheVars, wireVars, arg, selVars, pipeline_name, subjects_node,
                   sessions_node, archive_queries, sinks>>

\* self._outputs: multiplicity -> the outputs of that multiplicity
outputs_of(pl, mult) == {o \in pl.outputs : multiplicity(o) = mult}
output_mults(pl) == {multiplicity(o) : o \in pl.outputs}

\* the nodes _connect_to_reports creates for a multiplicity
report_nodes(p, mult) ==
    CASE mult = "per_session" ->
             {node_name(p, "session_outputs"),
              node_name(p, "subject_session_outputs")}
      [] mult = "per_subject" -> {node_name(p, "subject_summary_outputs")}
      [] mult = "per_visit" -> {node_name(p, "visit_summary_outputs")}
      [] OTHER -> {}

\* joinsource of the JoinNodes _connect_to_reports creates: the iterator
\* node over which a node joins, NONE for a node that is no JoinNode
joinsource(p, node) ==
    CASE node \in {node_name(p, "session_outputs"),
                   node_name(p, "visit_summary_outputs")} ->
             node_name(p, "sessions")
      [] node \in {node_name(p, "subject_session_outputs"),
                   node_name(p, "subject_summary_outputs")} ->
             node_name(p, "subjects")
      [] OTHER -> node_name(p, NONE)

\* the edges with the sink of every multiplicity connected as the per_visit
\* sink is
report_edges_by_visit(p, mult) ==
    LET sink == sink_name(p, mult)
        report == node_name(p, "report")
    IN  {<<sink, field("visit_id"),
           node_name(p, "visit_summary_outputs"), field("sessions")>>,
         <<node_name(p, "visit_summary_outputs"), field("sessions"),
           report, field("visits")>>}

\* the edges _connect_to_reports connects for a multiplicity
report_edges(p, mult) ==
    LET sink == sink_name(p, mult)
        report == node_name(p, "report")
    IN  CASE mult = "per_session" ->
                 {<<sink, field("subject_id"),
                    node_name(p, "session_outputs"), field("subjects")>>,
                  <<sink, field("visit_id"),
                    node_name(p, "session_outputs"), field("sessions")>>,
                  <<node_name(p, "session_outputs"),
                    field("subject_session_pairs"),
                    node_name(p, "subject_session_outputs"),
                    field("subject_session_pairs")>>,
                  <<node_name(p, "subject_session_outputs"),
                    field("subject_session_pairs"),
                    report, field("subject_session_pairs")>>}
          [] mult = "per_subject" ->
                 {<<sink, field("subject_id"),
                    node_name(p, "subject_summary_outputs"), field("subjects")>>,
                  <<node_name(p, "subject_summary_outputs"), field("subjects"),
                    report, field("subjects")>>}
          [] mult = "per_visit" ->
                 {<<sink, field("visit_id"),
                    node_name(p, "visit_summary_outputs"), field("sessions")>>,
                  <<node_name(p, "visit_summary_outputs"), field("sessions"),
                    report, field("visits")>>}
          [] OTHER -> {<<sink, field("project_id"), report, field("project")>>}

\* the edges into the sink with the outputs left unconnected
sink_edges_unwired(pl, mult) ==
    LET p == pl.name
        sessions == node_name(p, "sessions")
        sink == sink_name(p, mult)
    IN  {<<sessions, field("subject_id"), sink, field("subject_id")>> :
            m \in {mult} \cap {"per_session", "per_subject"}}
        \cup {<<sessions, field("visit_id"), sink, field("visit_id")>> :
                 m \in {mult} \cap {"per_session", "per_visit"}}

\* the edges into the sink of a multiplicity (pipeline.py:413-436)
sink_edges(pl, mult) ==
    LET p == pl.name
        sessions == node_name(p, "sessions")
        sink == sink_name(p, mult)
    IN  {<<sessions, field("subject_id"), sink, field("subject_id")>> :
            m \in {mult} \cap {"per_session", "per_subject"}}
        \cup {<<sessions, field("visit_id"), sink, field("visit_id")>> :
                 m \in {mult} \cap {"per_session", "per_visit"}}
        \cup {<<outputnode(p, mult), field(o),
                sink, suffixed(o, "INPUT_SUFFIX")>> :
                 o \in {n \in outputs_of(pl, mult) : processed(n)}}

\* the report node, a sink for each multiplicity of the outputs, the nodes
\* and edges of _connect_to_reports, and the return of the report
ConnSinks ==
    /\ Running("sinks")
    /\ op' = "sink"
    /\ LET pl == Top.pipeline
           p == pl.name
       IN  /\ sinks' = sinks \cup {sink_name(p, m) : m \in output_mults(pl)}
           /\ workflow_nodes' = workflow_nodes
                  \cup {node_name(p, "report")}
                  \cup {sink_name(p, m) : m \in output_mults(pl)}
                  \cup UNION {report_nodes(p, m) : m \in output_mults(pl)}
           /\ workflow_edges' = workflow_edges
                  \cup UNION {sink_edges(pl, m) : m \in output_mults(pl)}
                  \cup UNION {report_edges(p, m) : m \in output_mults(pl)}
           /\ Return(node_name(p, "report"))
    /\ log' = Append(log, Step("return report"))
    /\ UNCHANGED <<runVars, cacheVars, wireVars, arg, selVars, pipeline_name, subjects_node,
                   sessions_node, archive_queries, sources>>

(***************************************************************************)
(* The top-level call and the specification of the connection              *)
(***************************************************************************)
\* the options a pipeline of the study is constructed with
GivenOptions == {{}, {<<"opt", 2>>}}
\* the visit_ids a top-level call is made with
VisitFilters == {<<>>, <<{"1"}>>}

\* What the archive holds: every subject has a session of every visit, and
\* the names are those the pipeline and the pipelines upstream of it produce.
\* The code never reads a subject id but to compare it with another, so of the
\* archives that differ only in which subject is which, one is kept: the one
\* whose subjects are in the order of the names archived for them.  A project
\* holds subjects of at most two kinds: the subjects after the first hold the
\* same names.
RECURSIVE names_code(_)
names_code(names) ==
    IF names = {} THEN 0
    ELSE LET n == CHOOSE m \in names : TRUE
         IN  names_code(names \ {n}) +
             (CASE n = prefixed_name("preproc") -> 1
                [] n = prefixed_name("brain") -> 2
                [] OTHER -> 4)
subject_code(p, sub) ==
    names_code(p.subject_names[sub])
    + 8 * names_code(p.session_names[Session(sub, "1")])
    + 64 * names_code(p.session_names[Session(sub, "2")])
ConnectProjects(outs) ==
    {p \in Projects(outs) :
        /\ p.sessions = AllCells
        /\ \A sub \in Subjects \ {NSubjects} :
               subject_code(p, sub) <= subject_code(p, sub + 1)
        /\ \A sub \in Subjects \ {1, NSubjects} :
               subject_code(p, sub) = subject_code(p, sub + 1)}

\* a pipeline of the study after its study method has constructed it, with
\* all its inputs connected and its outputs connected or not
ConnectInit(tops) ==
    /\ \E top \in tops :
          /\ pipeline_name = top
          /\ inputs = [i \in 1..Len(pipeline_inputs(top)) |->
                          SpecEntry(pipeline_inputs(top)[i])]
          /\ outputs = pipeline_outputs(top)
          /\ input_edges = [n \in DatasetSpecNames |->
                               IF n \in Range(pipeline_inputs(top))
                               THEN 1 ELSE 0]
          /\ project \in ConnectProjects(produced_upstream(top))
          /\ arg \in {construct_options(top, g) : g \in GivenOptions}
    /\ unconnected_inputs = {}
    /\ unconnected_outputs \in {{}, outputs}
    /\ output_edges = outputs \ unconnected_outputs
    /\ visit_ids = <<>>
    /\ reprocess = "False"
    /\ sessions_to_process = {}
    /\ subjects_node = <<>>
    /\ sessions_node = <<>>
    /\ workflow_edges = {}
    /\ op = "__init__"
    /\ result = "ok"
    /\ ConnIdle
    /\ RunIdle

ConnInit == ConnectInit(PipelineNames)

\* the entry of a top-level call: complete_workflow is new, subject_ids,
\* project and connected_prereqs are left to their defaults
connect_to_archive ==
    /\ op = "__init__"
    /\ stack = <<>>
    /\ \E reproc \in {"False", "True", "all"} :
       \E vids \in VisitFilters :
          /\ reprocess' = reproc
          /\ visit_ids' = vids
          /\ stack' = <<Frame(Pipeline(pipeline_name, arg), reproc, <<>>, NONE)>>
    /\ op' = "connect_to_archive"
    /\ result' = "running"
    /\ UNCHANGED <<runVars, cacheVars, wireVars, arg, project, sessions_to_process, iterVars,
                   connected_prereqs, workflow_nodes, archive_queries, sources,
                   sinks, log>>

ConnNext ==
    \/ connect_to_archive
    \/ ConnAssertConnected
    \/ ConnProject
    \/ ConnSelect
    \/ ConnAddNodes
    \/ ConnPrereqConnected
    \/ ConnPrereqCall
    \/ ConnPrereqReports
    \/ ConnSource
    \/ ConnSinks

SpecConnect == ConnInit /\ [][ConnNext]_vars

(***************************************************************************)
(* Claims about the connection to the archive                              *)
(***************************************************************************)
\* the steps logged after the entry of the call of frame f, at depth d, by
\* that call and the calls it made
StepsSince(f, d, l) ==
    {l[i][3] : i \in {j \in (f.entry.steps + 1)..Len(l) : l[j][1] >= d}}

\* C8: when _sessions_to_process returns no session for a step, its
\* connect_to_archive call ends there: it returns None (the outermost call
\* ends with None, a prerequisite call hands no report to its caller and
\* stores none in the dict) and raises nothing; the nodes and the edges of
\* the complete workflow, the sources and the sinks are those the call was
\* entered with; and between its entry and its return the call took no
\* prerequisite from the dict and entered no prerequisite call.
C8_EmptyWorkSetSkips ==
    [][(Running("_sessions_to_process") /\ sessions_to_process' = {})
       => /\ stack' = Callers
          /\ result' = IF Depth = 1 THEN NONE ELSE "running"
          /\ workflow_nodes' = Top.entry.nodes
          /\ workflow_edges' = Top.entry.edges
          /\ sources' = Top.entry.sources
          /\ sinks' = Top.entry.sinks
          /\ connected_prereqs' = Top.entry.prereqs
          /\ StepsSince(Top, Depth, log') \cap
                 {"connected_prereqs", "connect_to_archive", "add_nodes",
                  "source"} = {}]_vars

\* C8 (witness): a prerequisite, prep, was skipped after its caller had added
\* its nodes to the complete workflow, and the outermost call went on to
\* return a report
C8_PrerequisiteSkipped ==
    /\ result = "report"
    /\ \E i \in 1..Len(log) : log[i] = <<2, "prep", "return None">>
    /\ workflow_nodes # {}

\* the steps of the pipeline named p that are named what, by their place in
\* the log
StepsOf(p, what) == {i \in 1..Len(log) : log[i][2] = p /\ log[i][3] = what}
\* the steps that asked for a prerequisite named p
RequestSteps == {"connect_to_archive", "connected_prereqs", "NiAnalysisError"}
Requests(p) ==
    {i \in 1..Len(log) : log[i][3] \in RequestSteps /\ log[i][4].name = p}
\* the pipelines that asked for a prerequisite named p
Dependents(p) == {log[i][2] : i \in Requests(p)}
\* the call returned a report to its top-level caller
Completed == stack = <<>> /\ result = "report"

AllRequests == {i \in 1..Len(log) : log[i][3] \in RequestSteps}

\* C12: when a prerequisite is asked for under a name under which a pipeline
\* that is not equal to it was asked for earlier in the same top-level call,
\* that request is the step that raises NiAnalysisError and the call ends
\* with it; so no call goes on, or returns, after two unequal pipelines of
\* one name were asked for.
C12_UnequalSameNameIsFatal ==
    \A i, j \in AllRequests :
        (i < j /\ log[i][4].name = log[j][4].name /\ log[i][4] # log[j][4])
            => /\ j = Len(log)
               /\ log[j][3] = "NiAnalysisError"
               /\ result = "NiAnalysisError"
               /\ stack = <<>>

\* the call of frame k has selected its sessions and gone on
Selected(k) ==
    stack[k].pc \notin {"assert_connected", "project", "_sessions_to_process"}
\* what a pipeline selects when nothing is forced: the sessions that pass the
\* filter and lack an output
Lacking(pl) ==
    UNION {sessions_to_process_of(project, order, visit_ids, "False") :
              order \in Orders(pl.outputs)}

\* C13: the outermost call runs with the reprocess it was given; a
\* prerequisite call at any depth runs with 'all' when the outermost call was
\* given 'all' and with False otherwise.  So with True the outermost pipeline
\* alone selects every session and each prerequisite selects the sessions
\* that lack its outputs; with 'all' every pipeline selects every session.
C13_ReprocessPropagation ==
    \A k \in 1..Depth :
        /\ stack[k].reprocess =
               IF k = 1 THEN reprocess
               ELSE IF reprocess = "all" THEN "all" ELSE "False"
        /\ Selected(k)
               => stack[k].work =
                      IF reprocess = "all" \/ (k = 1 /\ reprocess = "True")
                      THEN all_sessions(project)
                      ELSE Lacking(stack[k].pipeline)

\* C13 (witness): called with 'all', the prerequisite of a prerequisite
\* selected every session although the archive holds its output for all
C13_ForcedAtDepthThree ==
    /\ Depth = 3
    /\ reprocess = "all"
    /\ Selected(3)
    /\ Top.work = AllCells
    /\ Lacking(Top.pipeline) = {}

\* C14: every prerequisite asked for, at any depth, has for each option it
\* declares that the outermost pipeline was constructed with, the value of
\* the outermost pipeline (arg holds the options of the outermost pipeline).
C14_TopLevelOptionInEffect ==
    \A i \in AllRequests :
        \A o \in log[i][4].options :
            \A g \in arg : g[1] = o[1] => g[2] = o[2]

\* the nodes an edge of the complete workflow leads to from a node of N
Successors(N) == {e[3] : e \in {f \in workflow_edges : f[1] \in N}}
\* the nodes that depend on a node of N: N and all that a path leads to
RECURSIVE Downstream(_)
Downstream(N) ==
    LET next == Successors(N)
    IN  IF next \subseteq N THEN N ELSE Downstream(N \cup next)
\* the pipelines that returned a report
Reported == {p \in PipelineNames : StepsOf(p, "return report") # {}}

\* C15: in the graph of a call that returned a report, for every dependent d
\* and every prerequisite p it asked for that has a report (built by the call
\* d made, or taken from the dict), a path leads from p's report node to d's
\* subjects iterator, and on from there to d's source and to d's own report;
\* so the reports order every chain of prerequisites.
C15_ReportGatesDependent ==
    Completed
        => \A p \in Reported :
           \A d \in Dependents(p) :
              /\ node_name(d, "subjects")
                     \in Downstream({node_name(p, "report")})
              /\ {node_name(d, "source"), node_name(d, "report")}
                     \subseteq Downstream({node_name(d, "subjects")})

\* C15 (witness): prep, extract and stats were connected in one call, and
\* the source of stats depends on the report of prep by way of extract's
C15_ChainOfThree ==
    /\ Completed
    /\ Reported = PipelineNames
    /\ node_name("extract", "source")
           \in Downstream({node_name("prep", "report")})
    /\ node_name("stats", "source")
           \in Downstream({node_name("extract", "report")})

(***************************************************************************)
(* What the report of a pipeline lists once the workflow has run: the       *)
(* per_session sink runs once for each subject of the subjects iterator    *)
(* and each visit the sessions iterator binds for it; session_outputs      *)
(* joins the runs over the sessions iterator, subject_session_outputs      *)
(* joins the joined lists over the subjects iterator.                      *)
(***************************************************************************)
\* the visits the sessions iterator binds for subject x
visits_bound(work, x) ==
    IF visits_uniform(work)
    THEN DOMAIN session_subjects(work)
    ELSE {s.id : s \in {t \in work : t.subject = x}}

\* the output of the session_outputs join for subject x
session_outputs(work, x) == {<<x, v>> : v \in visits_bound(work, x)}

\* the length of the lists of the subjects xs put one after the other
RECURSIVE joined_length(_, _)
joined_length(work, xs) ==
    IF xs = {} THEN 0
    ELSE LET x == CHOOSE y \in xs : TRUE
         IN  Cardinality(session_outputs(work, x))
             + joined_length(work, xs \ {x})

\* subject_session_pairs of the report: the pairs listed, and how many
\* entries the list has
subject_session_pairs(work) ==
    [pairs |-> UNION {session_outputs(work, x) :
                         x \in subject_ids_to_process(work)},
     entries |-> joined_length(work, subject_ids_to_process(work))]

\* the sessions the pipeline named p selected in this call
SelectedWork(p) ==
    UNION {log[i][4] : i \in StepsOf(p, "_sessions_to_process")}

\* the scenario: extract is connected with no filter and no reprocess to an
\* archive that holds brain for no session, and the call returned a report
ExtractScenario ==
    /\ pipeline_name = "extract"
    /\ Completed
    /\ visit_ids = <<>>
    /\ reprocess = "False"
    /\ \A s \in project.sessions :
          prefixed_name("brain") \notin project.session_names[s]

\* what the scenario must end with: extract selected every session, prep
\* was connected once, and the list of extract's report has one entry for
\* each session
ExtractOutcome ==
    /\ SelectedWork("extract") = project.sessions
    /\ Cardinality(StepsOf("prep", "source")) = 1
    /\ Cardinality(StepsOf("prep", "return report")) = 1
    /\ subject_session_pairs(SelectedWork("extract")).entries
           = Cardinality(project.sessions)
    /\ subject_session_pairs(SelectedWork("extract")).pairs
           = {<<s.subject, s.id>> : s \in project.sessions}

C18_MissingDataNamesOrigin ==
    [][(/\ result' = "NiAnalysisMissingDatasetError"
        /\ result # "NiAnalysisMissingDatasetError")
       => /\ stack # <<>>
          /\ Top.pc = "source"
          /\ \E i \in 1..Len(Top.pipeline.inputs) :
                 ~processed(Top.pipeline.inputs[i])
          /\ log' = Append(log, <<Depth, Top.pipeline.name,
                                  "NiAnalysisMissingDatasetError">>)
          /\ stack' = <<>>]_vars

\* C18 (witness): the binding of the source of prep failed in a call three
\* frames deep, below extract and stats
C18_FailedAtDepthThree ==
    /\ result = "NiAnalysisMissingDatasetError"
    /\ stack = <<>>
    /\ log[Len(log)] = <<3, "prep", "NiAnalysisMissingDatasetError">>
    /\ StepsOf("stats", "NiAnalysisMissingDatasetError") = {}
    /\ StepsOf("extract", "NiAnalysisMissingDatasetError") = {}

(***************************************************************************)
(* Pipeline.run and Pipeline.submit (pipeline.py:162-215)                  *)
(***************************************************************************)
\* the scheduler names submit is called with
Schedulers == {"slurm", "sge"}
\* the email argument of submit, NONE when it is left out
Emails == {NONE, "user@host"}
\* the names set in os.environ
Environs == {{}, {"EMAIL"}}
\* the plugin complete_workflow.run is called with
DefaultPlugin == "default"
SLURMGraphPlugin == "SLURMGraphPlugin"

\* the errors a call of run or submit ends with
FatalErrors ==
    {"AssertionError", "NiAnalysisError", "NiAnalysisMissingDatasetError",
     "NiAnalysisUsageError"}
\* what connect_to_archive returns to run or submit: None or the report
Returned == {NONE, "report"}

\* the archives the pipelines are run on: the sessions of a visit hold the
\* same names for every subject, and so do the subjects
SameForAllSubjects(p) ==
    /\ \A a, b \in Subjects : p.subject_names[a] = p.subject_names[b]
    /\ \A a, b \in Subjects : \A v \in Visits :
           p.session_names[Session(a, v)] = p.session_names[Session(b, v)]

RunInit ==
    /\ ConnInit
    /\ SameForAllSubjects(project)

\* complete_workflow = pe.Workflow(...); self.connect_to_archive(
\* complete_workflow, **kwargs): the entry of the call of connect_to_archive
\* that run and submit make
EnterConnect(method) ==
    /\ \E reproc \in {"False", "True", "all"} :
       \E vids \in VisitFilters :
          /\ reprocess' = reproc
          /\ visit_ids' = vids
          /\ stack' = <<Frame(Pipeline(pipeline_name, arg), reproc, <<>>, NONE)>>
    /\ op' = method
    /\ result' = "running"

\* run(work_dir, plugin, mode, **kwargs) up to the call of connect_to_archive
run ==
    /\ op = "__init__"
    /\ entry_point = NONE
    /\ entry_point' = "run"
    /\ EnterConnect("run")
    /\ UNCHANGED <<engine_runs, cacheVars, wireVars, arg, project, sessions_to_process,
                   iterVars, connected_prereqs, workflow_nodes,
                   archive_queries, sources, sinks, log>>

\* submit(work_dir, scheduler, email, mail_on, **kwargs) up to the call of
\* connect_to_archive: the email and the scheduler are checked first
submit ==
    /\ op = "__init__"
    /\ entry_point = NONE
    /\ entry_point' = "submit"
    /\ \E email \in Emails : \E environ \in Environs :
       \E scheduler \in Schedulers :
          IF email = NONE /\ "EMAIL" \notin environ
          THEN /\ op' = "submit"
               /\ result' = "NiAnalysisError"
               /\ UNCHANGED <<reprocess, visit_ids, stack>>
          ELSE IF scheduler # "slurm"
          THEN /\ op' = "submit"
               /\ result' = "NiAnalysisUsageError"
               /\ UNCHANGED <<reprocess, visit_ids, stack>>
          ELSE EnterConnect("submit")
    /\ UNCHANGED <<engine_runs, cacheVars, wireVars, arg, project, sessions_to_process,
                   iterVars, connected_prereqs, workflow_nodes,
                   archive_queries, sources, sinks, log>>

\* the plugin run and submit hand to the execution engine
plugin_of(method) ==
    IF method = "submit" THEN SLURMGraphPlugin ELSE DefaultPlugin

\* complete_workflow.run() whether or not connect_to_archive returned
complete_workflow_run_always ==
    /\ entry_point # NONE
    /\ op # "__init__"
    /\ stack = <<>>
    /\ engine_runs = <<>>
    /\ engine_runs' = <<plugin_of(entry_point)>>
    /\ op' = "complete_workflow.run"
    /\ UNCHANGED <<entry_point, cacheVars, wireVars, arg, result, selVars, iterVars,
                   connVars>>

\* return complete_workflow.run(...): the statement after the call of
\* connect_to_archive, reached when that call returned
complete_workflow_run ==
    /\ entry_point # NONE
    /\ stack = <<>>
    /\ result \in Returned
    /\ engine_runs = <<>>
    /\ engine_runs' = <<plugin_of(entry_point)>>
    /\ op' = "complete_workflow.run"
    /\ UNCHANGED <<entry_point, cacheVars, wireVars, arg, result, selVars, iterVars,
                   connVars>>

RunNext ==
    \/ run
    \/ submit
    \/ ConnAssertConnected
    \/ ConnProject
    \/ ConnSelect
    \/ ConnAddNodes
    \/ ConnPrereqConnected
    \/ ConnPrereqCall
    \/ ConnPrereqReports
    \/ ConnSource
    \/ ConnSinks
    \/ complete_workflow_run

SpecRun == RunInit /\ [][RunNext]_vars

(***************************************************************************)
(* Claims about run and submit                                             *)
(***************************************************************************)
\* the outermost connect_to_archive call returned: its last step is a return
ConnectReturned ==
    /\ stack = <<>>
    /\ log # <<>>
    /\ log[Len(log)][1] = 1
    /\ log[Len(log)][3] \in {"return None", "return report"}

\* C19: in a call of run or submit that ended with a fatal error (an
\* AssertionError of assert_connected, a NiAnalysisError of a name clash or
\* of a missing email, a NiAnalysisMissingDatasetError, a
\* NiAnalysisUsageError of a scheduler other than slurm) complete_workflow.run
\* was not called; it is called only once connect_to_archive has returned,
\* with no exception logged.
C19_EngineRunsOnlyAfterConnect ==
    /\ result \in FatalErrors => engine_runs = <<>>
    /\ engine_runs # <<>> =>
          /\ ConnectReturned
          /\ result \in Returned
          /\ \A i \in 1..Len(log) : log[i][3] \notin FatalErrors

\* C19 (witness): submit was called with an email and with slurm, a
\* prerequisite of the pipeline failed to bind its source two calls down,
\* and the engine was not run
C19_SubmitFailedInPrerequisite ==
    /\ entry_point = "submit"
    /\ result = "NiAnalysisMissingDatasetError"
    /\ log # <<>>
    /\ log[Len(log)][1] > 1
    /\ engine_runs = <<>>

(***************************************************************************)
(* Pipeline.__init__: the checks of the declared inputs and outputs        *)
(* (pipeline.py:73-131)                                                    *)
(***************************************************************************)
\* Pipeline.iterfields
iterfields == {"subject_id", "visit_id"}
\* the names a pipeline is declared with
ConstructNames == {"raw", "brain", UnknownName} \cup iterfields
\* study.dataset_spec_names(): a study is free to name a dataset spec as an
\* iteration field is named
StudySpecNames == {DatasetSpecNames, DatasetSpecNames \cup iterfields}

\* the sequences over S of length at most n
RECURSIVE SeqsUpTo(_, _)
SeqsUpTo(S, n) ==
    IF n = 0 THEN {<<>>}
    ELSE {<<>>} \cup UNION {{<<x>> \o t : t \in SeqsUpTo(S, n - 1)} : x \in S}

\* _check_spec_names(specs, spec_type)
check_spec_names(specs, spec_names) ==
    IF Range(specs) \ spec_names # {} THEN "NiAnalysisError" ELSE "ok"

\* the statements of __init__ in order, up to the first that raises.  The
\* message of the error for an input named as an iteration field is formatted
\* with i.name, i being the variable of the generator expression in the
\* condition, which is not bound outside of it: a NameError is raised.
init_result(a) ==
    IF check_spec_names(a.inputs, a.spec_names) # "ok"
    THEN "NiAnalysisError"
    ELSE IF Range(a.inputs) \cap iterfields # {}
    THEN "NameError"
    ELSE IF check_spec_names(a.outputs, a.spec_names) # "ok"
    THEN "NiAnalysisError"
    ELSE IF Len(a.inputs) # Cardinality(Range(a.inputs))
    THEN "AssertionError"
    ELSE IF Len(a.outputs) # Cardinality(Range(a.outputs))
    THEN "AssertionError"
    ELSE "ok"

\* before the constructor is called with the study and the declarations in arg
ConstructInit ==
    /\ arg \in [spec_names : StudySpecNames,
                inputs : SeqsUpTo(ConstructNames, MaxDeclared),
                outputs : SeqsUpTo(ConstructNames, MaxDeclared)]
    /\ op = "new"
    /\ result = "ok"
    /\ inputs = <<>>
    /\ outputs = {}
    /\ unconnected_inputs = {}
    /\ unconnected_outputs = {}
    /\ input_edges = [n \in DatasetSpecNames |-> 0]
    /\ output_edges = {}
    /\ SelIdle
    /\ IterIdle
    /\ ConnIdle
    /\ RunIdle

\* Pipeline.__init__(study, name, inputs, outputs, ...)
Pipeline__init__ ==
    /\ op = "new"
    /\ op' = "__init__"
    /\ result' = init_result(arg)
    /\ IF init_result(arg) = "ok"
       THEN /\ inputs' = [i \in 1..Len(arg.inputs) |-> SpecEntry(arg.inputs[i])]
            /\ outputs' = Range(arg.outputs)
            /\ unconnected_inputs' = Range(arg.inputs)
            /\ unconnected_outputs' = Range(arg.outputs)
            /\ UNCHANGED <<input_edges, output_edges>>
       ELSE UNCHANGED wireVars
    /\ UNCHANGED <<arg, selVars, iterVars, connVars, runVars, cacheVars>>

ConstructNext == Pipeline__init__

SpecConstruct == ConstructInit /\ [][ConstructNext]_vars

(***************************************************************************)
(* Claims about the construction                                           *)
(***************************************************************************)
\* the declarations the claim names, of the inputs and of the outputs
UnknownDeclared(specs) == Range(specs) \ arg.spec_names # {}
DuplicateDeclared(specs) == Len(specs) # Cardinality(Range(specs))
ReservedDeclared(specs) == Range(specs) \cap iterfields # {}

\* C20: the construction of a pipeline fails when a declared input or output
\* is no dataset spec name of the study, when the declared inputs or the
\* declared outputs hold a name twice, and when a declared input or output
\* is named subject_id or visit_id.
C20_InvalidDeclarationFails ==
    op = "__init__" =>
        \A specs \in {arg.inputs, arg.outputs} :
            (\/ UnknownDeclared(specs)
             \/ DuplicateDeclared(specs)
             \/ ReservedDeclared(specs)) => result # "ok"

\* what the constructor does reject: unknown and duplicate names of both
\* kinds, and inputs named as an iteration field
RejectedDeclarations ==
    op = "__init__" =>
        /\ \A specs \in {arg.inputs, arg.outputs} :
              (UnknownDeclared(specs) \/ DuplicateDeclared(specs))
                  => result # "ok"
        /\ ReservedDeclared(arg.inputs) => result # "ok"

(***************************************************************************)
(* has_prerequisites and prerequisities over any study table               *)
(* (pipeline.py:530-549)                                                   *)
(***************************************************************************)
\* the getters of a study, NONE for an acquired dataset
Getters == {NONE, "prep", "extract"}

\* a pipeline constructed with inputs of a study whose table is in arg
PrereqInit ==
    /\ arg \in [WireNames -> Getters]
    /\ inputs \in {[i \in 1..Len(s) |-> SpecEntry(s[i])] :
                      s \in SeqsNoDup(WireNames, MaxDeclared)}
    /\ outputs = {}
    /\ unconnected_inputs = DeclaredInputs
    /\ unconnected_outputs = {}
    /\ input_edges = [n \in DatasetSpecNames |-> 0]
    /\ output_edges = {}
    /\ op = "__init__"
    /\ result = {}
    /\ SelIdle
    /\ IterIdle
    /\ ConnIdle
    /\ RunIdle

\* self.inputs as names
InputNames == [i \in 1..Len(inputs) |-> inputs[i].name]

\* the property has_prerequisites is read
PrereqHas ==
    /\ op' = "has_prerequisites"
    /\ result' = {any_processed(InputNames, arg)}
    /\ UNCHANGED <<wireVars, arg, selVars, iterVars, connVars, runVars, cacheVars>>

\* the property prerequisities is read, and the generator it returns is
\* consumed: result holds the getters called
PrereqList ==
    /\ op' = "prerequisities"
    /\ result' = pipeline_getters(InputNames, arg)
    /\ UNCHANGED <<wireVars, arg, selVars, iterVars, connVars, runVars, cacheVars>>

PrereqNext ==
    \/ PrereqHas
    \/ PrereqList

SpecPrereq == PrereqInit /\ [][PrereqNext]_vars

(***************************************************************************)
(* Claims about the prerequisites of a pipeline                            *)
(***************************************************************************)
\* the inputs of the pipeline that the study generates
ProcessedInputs == {n \in DeclaredInputs : arg[n] # NONE}

\* C21: the getters prerequisities calls are exactly the producers of the
\* processed inputs of the pipeline, each once (the getters called are a
\* set: as many as there are distinct producers); an acquired input adds
\* none, and has_prerequisites is false exactly when no input is processed.
C21_PrerequisitesAreProducers ==
    /\ op = "prerequisities" =>
          /\ result = {arg[n] : n \in ProcessedInputs}
          /\ NONE \notin result
          /\ ProcessedInputs = {} => result = {}
    /\ op = "has_prerequisites" => result = {ProcessedInputs # {}}

\* C21 (witness): the pipeline has as many processed inputs as a pipeline
\* is declared with, all of one producer, and one getter was called
C21_SharedProducerOnce ==
    /\ op = "prerequisities"
    /\ Cardinality(ProcessedInputs) = MaxDeclared
    /\ Cardinality(result) = 1

(***************************************************************************)
(* The connection of pipelines with outputs of every multiplicity:         *)
(* prep (per_session), stats (per_subject, with its prerequisites) and     *)
(* atlas (per_visit and per_project)                                       *)
(***************************************************************************)
RouteNames == {"prep", "stats", "atlas"}

\* the archives of stats are those whose subjects hold the same names
RouteInit ==
    /\ ConnectInit(RouteNames)
    /\ pipeline_name = "stats" => SameForAllSubjects(project)

RouteNext ==
    \/ connect_to_archive
    \/ ConnAssertConnected
    \/ ConnProject
    \/ ConnSelect
    \/ ConnAddNodes
    \/ ConnPrereqConnected
    \/ ConnPrereqCall
    \/ ConnPrereqReports
    \/ ConnSource
    \/ ConnSinks

SpecRoute == RouteInit /\ [][RouteNext]_vars

(***************************************************************************)
(* Claims about the sinks and the report                                   *)
(***************************************************************************)
\* the pipelines of the study that returned a report
Routed ==
    {p \in PipelineNames \cup RouteNames : StepsOf(p, "return report") # {}}

\* the iterators joined over on the way from node n to the report of p, in
\* the order of the path; a node with more or fewer than one successor ends
\* the walk with NONE
RECURSIVE JoinsFrom(_, _)
JoinsFrom(p, n) ==
    IF n = node_name(p, "report") THEN <<>>
    ELSE IF Cardinality(Successors({n})) # 1 THEN <<NONE>>
    ELSE LET m == CHOOSE x \in Successors({n}) : TRUE
         IN  IF m = node_name(p, "report") THEN <<>>
             ELSE <<joinsource(p, m)>> \o JoinsFrom(p, m)

\* the joins the claim gives for a multiplicity
JoinsOfLevel(p, mult) ==
    CASE mult = "per_session" ->
             <<node_name(p, "sessions"), node_name(p, "subjects")>>
      [] mult = "per_subject" -> <<node_name(p, "subjects")>>
      [] mult = "per_visit" -> <<node_name(p, "sessions")>>
      [] OTHER -> <<>>

\* C22: a pipeline that returned a report did so once; the sinks created
\* for it are one for each multiplicity of its outputs; from the sink of a
\* multiplicity one path leads to the report, joined over sessions and then
\* subjects for per_session, over subjects for per_subject, over sessions
\* (the visit axis) for per_visit, and not joined for per_project, where the
\* edge is project_id -> project; and the list of a per_session report has
\* one pair for each session the pipeline selected, and as many entries.
C22_LevelRouting ==
    \A p \in Routed :
        LET mults == {multiplicity(o) : o \in pipeline_outputs(p)}
        IN  /\ Cardinality(StepsOf(p, "return report")) = 1
            /\ {n \in sinks : n[1] = p} = {sink_name(p, m) : m \in mults}
            /\ \A m \in mults :
                  JoinsFrom(p, sink_name(p, m)) = JoinsOfLevel(p, m)
            /\ "per_project" \in mults =>
                  <<sink_name(p, "per_project"), field("project_id"),
                    node_name(p, "report"), field("project")>>
                      \in workflow_edges
            /\ "per_session" \in mults =>
                  /\ subject_session_pairs(SelectedWork(p)).pairs
                         = {<<w.subject, w.id>> : w \in SelectedWork(p)}
                  /\ subject_session_pairs(SelectedWork(p)).entries
                         = Cardinality(SelectedWork(p))

\* C22 (witness): atlas returned a report with a per_visit sink and a
\* per_project sink
C22_VisitAndProjectSinks ==
    /\ Completed
    /\ pipeline_name = "atlas"
    /\ sinks = {sink_name("atlas", "per_visit"),
                sink_name("atlas", "per_project")}

(***************************************************************************)
(* Claims about the order of the steps of one call                         *)
(***************************************************************************)
\* the phase a logged step belongs to: validation, query of the project,
\* selection (with the return of None it may end in), the nodes and
\* iterators, the prerequisites, the Merge node of their reports, the
\* source, the sinks and the report
Phase(what) ==
    CASE what \in {"assert_connected", "AssertionError"} -> 1
      [] what = "project" -> 2
      [] what \in {"_sessions_to_process", "return None"} -> 3
      [] what = "add_nodes" -> 4
      [] what \in RequestSteps -> 5
      [] what = "prereq_reports" -> 6
      [] what \in {"source", "NiAnalysisMissingDatasetError"} -> 7
      [] OTHER -> 8

\* the places in the log of the steps the call of the top frame has taken
TopSteps == {i \in (Top.entry.steps + 1)..Len(log) : log[i][1] = Depth}

\* the names of the prerequisites the call of the top frame has resolved:
\* taken from the dict, or called and returned from
TopResolved ==
    {log[i][4].name :
        i \in {j \in TopSteps : log[j][3] \in {"connect_to_archive",
                                               "connected_prereqs"}}}

\* C23: every step a call takes is of a later phase than the steps the call
\* has taken before, but in the loop over the prerequisites, where it is of
\* the same phase and about another prerequisite; a call starts with
\* validation; None is returned by the selection step and by no other; and
\* the source is bound, and the sinks and the report created, only when
\* every prerequisite of the pipeline has been resolved.
C23_PhasesInOrder ==
    [][(Depth > 0 /\ Len(log') = Len(log) + 1)
       => LET new == log'[Len(log')]
          IN  /\ new[1] = Depth
              /\ new[2] = Top.pipeline.name
              /\ \A i \in TopSteps :
                    \/ Phase(log[i][3]) < Phase(new[3])
                    \/ /\ new[3] \in RequestSteps
                       /\ log[i][3] \in RequestSteps
                       /\ log[i][4].name # new[4].name
              /\ TopSteps = {} => Phase(new[3]) = 1
              /\ new[3] = "return None" =>
                    /\ Top.pc = "_sessions_to_process"
                    /\ sessions_to_process' = {}
              /\ Phase(new[3]) >= 7 =>
                    {q.name : q \in prerequisities(Top.pipeline)}
                        = TopResolved]_vars

\* C23 (witness): a call three frames deep is about to create its sinks and
\* report, having taken the steps of every phase before
C23_AllPhasesAtDepthThree ==
    /\ Depth = 3
    /\ Top.pc = "sinks"
    /\ {log[i][3] : i \in TopSteps}
           = {"assert_connected", "_sessions_to_process", "add_nodes", "source"}
    /\ {log[i][3] : i \in {j \in 1..Len(log) : log[j][1] = 1}}
           = {"assert_connected", "project", "_sessions_to_process",
              "add_nodes", "connect_to_archive"}

(***************************************************************************)
(* The nodes a pipeline creates in its workflow (pipeline.py:672-806).     *)
(* A node name is the tuple of the parts it is formatted from.             *)
(***************************************************************************)
\* the names the create_ methods are called with
NodeNames == {"merge", "bet"}

\* the nodes __init__ creates: the inputnode and an outputnode for each
\* multiplicity of the outputs
NodesInit ==
    /\ pipeline_name \in {"prep", "stats", "atlas"}
    /\ workflow_nodes =
           {node_name(pipeline_name, "inputnode")}
           \cup {outputnode(pipeline_name, multiplicity(o)) :
                    o \in pipeline_outputs(pipeline_name)}
    /\ inputs = [i \in 1..Len(pipeline_inputs(pipeline_name)) |->
                    SpecEntry(pipeline_inputs(pipeline_name)[i])]
    /\ outputs = pipeline_outputs(pipeline_name)
    /\ unconnected_inputs = DeclaredInputs
    /\ unconnected_outputs = outputs
    /\ input_edges = [n \in DatasetSpecNames |-> 0]
    /\ output_edges = {}
    /\ op = "__init__"
    /\ arg = NONE
    /\ result = "ok"
    /\ project = NONE
    /\ visit_ids = <<>>
    /\ reprocess = "False"
    /\ sessions_to_process = {}
    /\ subjects_node = <<>>
    /\ sessions_node = <<>>
    /\ workflow_edges = {}
    /\ stack = <<>>
    /\ connected_prereqs = {}
    /\ archive_queries = 0
    /\ sources = {}
    /\ sinks = {}
    /\ log = <<>>
    /\ RunIdle

\* a node of the given name is added to self._workflow; a name the workflow
\* has already is not given again
AddNode(method, name, node) ==
    /\ node \notin workflow_nodes
    /\ op' = method
    /\ arg' = name
    /\ result' = node
    /\ workflow_nodes' = workflow_nodes \cup {node}
    /\ UNCHANGED <<wireVars, selVars, pipeline_name, subjects_node,
                   sessions_node, workflow_edges, stack, connected_prereqs,
                   archive_queries, sources, sinks, log, runVars, cacheVars>>

\* Node(interface, name="{}_{}".format(self._name, name), ...)
create_node(name) ==
    AddNode("create_node", name, node_name(pipeline_name, name))

\* MapNode(interface, name="{}_{}".format(self._name, name), ...)
create_map_node(name) ==
    AddNode("create_map_node", name, node_name(pipeline_name, name))

\* JoinNode(interface, joinsource='{}_sessions'.format(self.name), ...,
\* name=name, ...)
create_join_sessions_node(name) ==
    AddNode("create_join_sessions_node", name, <<name>>)

\* JoinNode(interface, joinsource='{}_subjects'.format(self.name), ...,
\* name=name, ...)
create_join_subjects_node(name) ==
    AddNode("create_join_subjects_node", name, <<name>>)

NodesCreate == \E n \in NodeNames \cup {"inputs_merge"} : create_node(n)
NodesCreateMap == \E n \in NodeNames \cup {"outputs_map"} : create_map_node(n)
NodesCreateJoinSessions ==
    \E n \in NodeNames \cup {"sessions_join"} : create_join_sessions_node(n)
NodesCreateJoinSubjects ==
    \E n \in NodeNames \cup {"subjects_join"} : create_join_subjects_node(n)

NodesNext ==
    \/ NodesCreate
    \/ NodesCreateMap
    \/ NodesCreateJoinSessions
    \/ NodesCreateJoinSubjects

SpecNodes == NodesInit /\ [][NodesNext]_vars

(***************************************************************************)
(* Claims about the names of the nodes                                     *)
(***************************************************************************)
\* the name is formatted from the name of the pipeline and a suffix
Prefixed(node, p) == Len(node) > 1 /\ node[1] = p

\* C24: every node created for a pipeline, by __init__ and by create_node,
\* create_map_node, create_join_sessions_node and create_join_subjects_node,
\* has a name that starts with the name of the pipeline.
C24_NodeNamesPrefixed ==
    \A node \in workflow_nodes : Prefixed(node, pipeline_name)

\* the same for all but the nodes of the two create_join methods
PrefixedButJoins ==
    \A node \in workflow_nodes :
        \/ Prefixed(node, pipeline_name)
        \/ /\ Len(node) = 1
           /\ node[1] \in NodeNames \cup {"sessions_join", "subjects_join"}

(***************************************************************************)
(* Pipeline.__eq__ and Pipeline.__ne__ (pipeline.py:148-160)               *)
(***************************************************************************)
\* self._outputs: the declared outputs by multiplicity, each list in the
\* order of the declaration
RECURSIVE outputs_by_multiplicity(_)
outputs_by_multiplicity(declared) ==
    IF declared = <<>> THEN <<>>
    ELSE LET rest == outputs_by_multiplicity(Tail(declared))
             mult == multiplicity(Head(declared))
         IN  IF \E i \in 1..Len(rest) : rest[i][1] = mult
             THEN [i \in 1..Len(rest) |->
                      IF rest[i][1] = mult
                      THEN <<mult, <<Head(declared)>> \o rest[i][2]>>
                      ELSE rest[i]]
             ELSE <<<<mult, <<Head(declared)>>>>>> \o rest

\* the dict as the set of its items
outputs_dict(declared) ==
    Range(outputs_by_multiplicity(declared))

\* the attributes of a Pipeline object
PipelineObjects ==
    [name : {"prep", "extract"},
     study : {StudyName, "other_study"},
     inputs : {<<"raw">>, <<"raw", "preproc">>},
     outputs : {outputs_dict(d) :
                   d \in {<<"brain">>, <<"brain", "subj_avg">>,
                          <<"subj_avg", "brain">>, <<"preproc", "brain">>,
                          <<"brain", "preproc">>}},
     options : {{<<"opt", 1>>}, {<<"opt", 2>>}},
     citations : {"prep", "extract"},
     version : {1, 2},
     description : {"a pipeline", "another pipeline"},
     default_options : {{<<"opt", 1>>}, {<<"opt", 2>>}}]

\* the objects on the left of == and !=
LeftObjects ==
    {o \in PipelineObjects :
        /\ o.name = "prep"
        /\ o.study = StudyName
        /\ o.inputs = <<"raw">>
        /\ o.options = {<<"opt", 1>>}
        /\ o.citations = "prep"
        /\ o.version = 1
        /\ o.description = "a pipeline"
        /\ o.default_options = {<<"opt", 1>>}}

\* an object of another class
OtherObject == [class |-> "str"]

\* isinstance(other, self.__class__)
is_pipeline(other) == "name" \in DOMAIN other

\* __eq__ with the version compared as well
eq_with_version(self, other) ==
    IF ~is_pipeline(other) THEN FALSE
    ELSE /\ self.name = other.name
         /\ self.study = other.study
         /\ self.inputs = other.inputs
         /\ self.outputs = other.outputs
         /\ self.options = other.options
         /\ self.citations = other.citations
         /\ self.version = other.version

\* __eq__(self, other)
eq(self, other) ==
    IF ~is_pipeline(other) THEN FALSE
    ELSE /\ self.name = other.name
         /\ self.study = other.study
         /\ self.inputs = other.inputs
         /\ self.outputs = other.outputs
         /\ self.options = other.options
         /\ self.citations = other.citations

\* __ne__(self, other)
ne(self, other) == ~eq(self, other)

\* two objects, or an object and something that is no pipeline; the wiring
\* of the pipelines plays no part
EqInit ==
    /\ arg \in LeftObjects \X (PipelineObjects \cup {OtherObject})
    /\ op = "__init__"
    /\ result = "ok"
    /\ inputs = <<>>
    /\ outputs = {}
    /\ unconnected_inputs = {}
    /\ unconnected_outputs = {}
    /\ input_edges = [n \in DatasetSpecNames |-> 0]
    /\ output_edges = {}
    /\ SelIdle
    /\ IterIdle
    /\ ConnIdle
    /\ RunIdle

\* self == other
EqCall ==
    /\ op' = "__eq__"
    /\ result' = IF eq(arg[1], arg[2]) THEN "True" ELSE "False"
    /\ UNCHANGED <<wireVars, arg, selVars, iterVars, connVars, runVars, cacheVars>>

\* self != other
NeCall ==
    /\ op' = "__ne__"
    /\ result' = IF ne(arg[1], arg[2]) THEN "True" ELSE "False"
    /\ UNCHANGED <<wireVars, arg, selVars, iterVars, connVars, runVars, cacheVars>>

EqNext ==
    \/ EqCall
    \/ NeCall

SpecEq == EqInit /\ [][EqNext]_vars

(***************************************************************************)
(* Claims about the equality of pipelines                                  *)
(***************************************************************************)
\* the attributes that make the identity of a pipeline
IdentityFields ==
    {"name", "study", "inputs", "outputs", "options", "citations"}
SameIdentity(a, b) == \A f \in IdentityFields : a[f] = b[f]

\* C25: for two pipelines, == is true exactly when name, study, inputs,
\* outputs, options and citations are equal, whatever the version, the
\* description and the default options are; and != is true exactly when ==
\* is not.
C25_EqualityIsIdentity ==
    /\ (op = "__eq__" /\ is_pipeline(arg[2])) =>
           (result = "True" <=> SameIdentity(arg[1], arg[2]))
    /\ op = "__ne__" =>
           (result = "True" <=> ~eq(arg[1], arg[2]))
    /\ (op = "__ne__" /\ is_pipeline(arg[2])) =>
           (result = "False" <=> SameIdentity(arg[1], arg[2]))

\* C25 (witness): two pipelines that differ in version, description and
\* default options, and in nothing else, compared equal
C25_EqualButForVersion ==
    /\ op = "__eq__"
    /\ result = "True"
    /\ is_pipeline(arg[2])
    /\ arg[1].version # arg[2].version
    /\ arg[1].description # arg[2].description
    /\ arg[1].default_options # arg[2].default_options

\* ---------------------------------------------------------------------------
\* connect_to_archive called by several callers (pipeline.py:256-346).  Each
\* caller is a thread of control with its own calls in progress; a dict is an
\* object that a call reaches through the reference in its connected_prereqs
\* argument.  What the archive holds is left open: a call may find nothing to
\* process or something.
\* ---------------------------------------------------------------------------
CallerNames == {"a", "b"}
\* the dicts created in a behaviour
MaxDicts == 3

\* the names of the pipelines that prerequisities yields for the pipeline p
prereq_names(p) == pipeline_getters(pipeline_inputs(p), StudyGetters)

\* a call of the pipeline p whose connected_prereqs refers to a dict
CallFrame(p, dict) ==
    [pipeline |-> p,
     pc |-> "_sessions_to_process",
     todo |-> {},
     connected_prereqs |-> dict]

CallersInit ==
    /\ calls = [t \in CallerNames |-> <<>>]
    /\ dicts = <<>>
    /\ entry_point = NONE
    /\ engine_runs = <<>>
    /\ arg = <<>>
    /\ op = "__init__"
    /\ result = "ok"
    /\ inputs = <<>>
    /\ outputs = {}
    /\ unconnected_inputs = {}
    /\ unconnected_outputs = {}
    /\ input_edges = [n \in DatasetSpecNames |-> 0]
    /\ output_edges = {}
    /\ SelIdle
    /\ IterIdle
    /\ ConnIdle

CallDepth(t) == Len(calls[t])
CallTop(t) == calls[t][CallDepth(t)]
CallAt(t, pc) == CallDepth(t) > 0 /\ CallTop(t).pc = pc
CallContinue(t, f) == calls' = [calls EXCEPT ![t][CallDepth(t)] = f]

\* a signature whose default for connected_prereqs is a dict: the default is
\* one object, created once and given to every call that leaves it out
CallEnter_default_dict(t) ==
    /\ calls[t] = <<>>
    /\ Len(dicts) < MaxDicts
    /\ op' = "connect_to_archive"
    /\ \E p \in PipelineNames :
          calls' = [calls EXCEPT ![t] = <<CallFrame(p, 1)>>]
    /\ dicts' = IF dicts = <<>> THEN <<{}>> ELSE dicts
    /\ UNCHANGED <<wireVars, arg, result, selVars, iterVars, connVars,
                   runVars>>

\* a top-level call, connected_prereqs left to its default None: the call
\* creates a dict (pipeline.py:293-294)
CallEnter(t) ==
    /\ calls[t] = <<>>
    /\ Len(dicts) < MaxDicts
    /\ op' = "connect_to_archive"
    /\ \E p \in PipelineNames :
          calls' = [calls EXCEPT ![t] = <<CallFrame(p, Len(dicts) + 1)>>]
    /\ dicts' = Append(dicts, {})
    /\ UNCHANGED <<wireVars, arg, result, selVars, iterVars, connVars,
                   runVars>>

\* the value a call returns reaches its caller; a report is stored in the dict
\* of the caller under the name of the prerequisite, with the report that
\* caller t's workflow holds (pipeline.py:339-341)
CallReturn(t, report) ==
    /\ calls' = [calls EXCEPT ![t] = SubSeq(@, 1, CallDepth(t) - 1)]
    /\ IF CallDepth(t) > 1 /\ report
       THEN LET dict == calls[t][CallDepth(t) - 1].connected_prereqs
                name == CallTop(t).pipeline
            IN  dicts' = [dicts EXCEPT ![dict] =
                             {e \in @ : e[1] # name} \cup {<<name, t>>}]
       ELSE UNCHANGED dicts

\* no session to process: the call returns None (pipeline.py:306-311)
CallSkipped(t) ==
    /\ CallAt(t, "_sessions_to_process")
    /\ op' = "_sessions_to_process"
    /\ CallReturn(t, FALSE)
    /\ UNCHANGED <<wireVars, arg, result, selVars, iterVars, connVars,
                   runVars>>

\* sessions to process: the call goes on to its prerequisites
\* (pipeline.py:319-321)
CallSelected(t) ==
    /\ CallAt(t, "_sessions_to_process")
    /\ op' = "prerequisities"
    /\ CallContinue(t, [CallTop(t) EXCEPT
                           !.pc = "prerequisites",
                           !.todo = prereq_names(CallTop(t).pipeline)])
    /\ UNCHANGED <<wireVars, arg, result, selVars, iterVars, connVars,
                   runVars, dicts>>

\* connected_prereqs[prereq.name] finds an entry (pipeline.py:322-330)
CallPrereqConnected(t) ==
    /\ CallAt(t, "prerequisites")
    /\ op' = "connected_prereqs"
    /\ \E prereq \in CallTop(t).todo :
          /\ \E e \in dicts[CallTop(t).connected_prereqs] : e[1] = prereq
          /\ CallContinue(t, [CallTop(t) EXCEPT !.todo = @ \ {prereq}])
    /\ UNCHANGED <<wireVars, arg, result, selVars, iterVars, connVars,
                   runVars, dicts>>

\* KeyError: the prerequisite is called with the connected_prereqs of the
\* caller (pipeline.py:331-338)
CallPrereq(t) ==
    /\ CallAt(t, "prerequisites")
    /\ op' = "KeyError"
    /\ \E prereq \in CallTop(t).todo :
          /\ \A e \in dicts[CallTop(t).connected_prereqs] : e[1] # prereq
          /\ calls' = [calls EXCEPT ![t] =
                 Append([@ EXCEPT ![CallDepth(t)].todo = @ \ {prereq}],
                        CallFrame(prereq, CallTop(t).connected_prereqs))]
    /\ UNCHANGED <<wireVars, arg, result, selVars, iterVars, connVars,
                   runVars, dicts>>

\* every prerequisite is dealt with: the call goes on to its end and returns
\* its report (pipeline.py:347-439)
CallReported(t) ==
    /\ CallAt(t, "prerequisites")
    /\ CallTop(t).todo = {}
    /\ op' = "report"
    /\ CallReturn(t, TRUE)
    /\ UNCHANGED <<wireVars, arg, result, selVars, iterVars, connVars,
                   runVars>>

CallersNext ==
    \E t \in CallerNames :
       \/ CallEnter(t)
       \/ CallSkipped(t)
       \/ CallSelected(t)
       \/ CallPrereqConnected(t)
       \/ CallPrereq(t)
       \/ CallReported(t)

SpecCallers == CallersInit /\ [][CallersNext]_vars

\* the dict that the calls of caller t work with
DictOf(t) == dicts[calls[t][1].connected_prereqs]

\* C26: a top-level call that is given no connected_prereqs starts with a dict
\* of its own that is empty, every call below it has a reference to that same
\* dict, and however the calls of two callers interleave, the dict of the one
\* is not the dict of the other and holds no entry that the other wrote.
C26_DictPerTopLevelCall ==
    \A t \in CallerNames :
       /\ CallDepth(t) = 1 /\ CallTop(t).pc = "_sessions_to_process"
              => DictOf(t) = {}
       /\ \A k \in 1..CallDepth(t) :
             /\ calls[t][k].connected_prereqs = calls[t][1].connected_prereqs
             /\ \A u \in CallerNames \ {t} :
                \A j \in 1..CallDepth(u) :
                   calls[u][j].connected_prereqs
                       # calls[t][k].connected_prereqs
       /\ CallDepth(t) > 0 => \A e \in DictOf(t) : e[2] = t

\* both callers are in a prerequisite's call, each with an entry in its dict
C26_TwoCallsInProgress ==
    \A t \in CallerNames :
       /\ CallDepth(t) > 1
       /\ DictOf(t) # {}

\* C27: the archive is asked for the project once in a top-level call, by the
\* outermost call right after its assert_connected and before any selection;
\* no call below asks again, each is handed the project loaded; every
\* selection, at any depth, is made on that one project, which no step
\* changes, and is what _sessions_to_process yields for the project, the
\* visit_ids and the reprocess of the call, whatever subject_ids it was given.
C27_OneProjectQuery ==
    [][/\ archive_queries' # archive_queries
             => /\ archive_queries = 0
                /\ archive_queries' = 1
                /\ Depth = 1
                /\ log = <<Step("assert_connected")>>
       /\ project' = project
       /\ \A k \in 2..Len(stack') : stack'[k].project = "loaded"
       /\ (Running("_sessions_to_process") /\ log' # log)
             => /\ archive_queries = 1
                /\ archive_queries' = 1
                /\ Top.project = "loaded"
                /\ \E order \in Orders(Top.pipeline.outputs) :
                      sessions_to_process' =
                          sessions_to_process_of(project, order, visit_ids,
                                                 Top.reprocess)]_vars

\* C27 (witness): after the one query, a prerequisite that was given the
\* subjects of its caller's sessions selected a session of another subject
C27_SelectedBeyondSubjectIds ==
    /\ archive_queries = 1
    /\ Depth > 1
    /\ Top.pc = "add_nodes"
    /\ Top.subject_ids # <<>>
    /\ \E ses \in Top.work : ses.subject \notin Top.subject_ids[1]

\* ---------------------------------------------------------------------------
\* A call in progress goes on: the interpreter takes the next step of
\* connect_to_archive whenever there is one.
\* ---------------------------------------------------------------------------
SpecConnectFair == ConnInit /\ [][ConnNext]_vars /\ WF_vars(ConnNext)

\* the calls of the prerequisite named q made by a call of the pipeline named p
EdgeVisits(p, q) ==
    {i \in 1..Len(log) :
        /\ log[i][2] = p
        /\ log[i][3] = "connect_to_archive"
        /\ log[i][4].name = q}

\* the outcomes of a top-level call
Outcomes == {"report", NONE} \cup FatalErrors

\* C28: over the producer relation of the study, which has no cycle, a
\* top-level call comes to an end, with a report, with None or with an
\* exception; on the way no call is nested deeper than there are pipelines and
\* no pipeline calls the same prerequisite twice.
C28_CallTerminates ==
    /\ [](/\ Depth <= Cardinality(PipelineNames)
          /\ \A p, q \in PipelineNames : Cardinality(EdgeVisits(p, q)) <= 1)
    /\ (stack # <<>>) ~> (stack = <<>> /\ result \in Outcomes)

\* C28 (witness): a call that went three deep, along every edge of the
\* relation, has returned its report
C28_ReturnedFromDepthThree ==
    /\ stack = <<>>
    /\ result = "report"
    /\ \E i \in 1..Len(log) : log[i][1] = 3
    /\ \A q \in {"prep", "extract"} : EdgeVisits("stats", q) # {}
    /\ EdgeVisits("extract", "prep") # {}

\* ---------------------------------------------------------------------------
\* The calls of SpecConnect and those of warp, whose processed inputs are a
\* per_visit and a per_project dataset.
\* ---------------------------------------------------------------------------
ScheduleNames == PipelineNames \cup {"warp"}

ScheduleInit == ConnectInit(ScheduleNames)

SpecSchedule == ScheduleInit /\ [][ConnNext]_vars

\* the project holds the dataset named n for the session ses, at the level of
\* the dataset's multiplicity
Archived(n, ses) ==
    CASE multiplicity(n) = "per_session" ->
             prefixed_name(n) \in project.session_names[ses]
      [] multiplicity(n) = "per_subject" ->
             prefixed_name(n) \in project.subject_names[ses.subject]
      [] multiplicity(n) = "per_visit" ->
             prefixed_name(n) \in project.visit_names[ses.id]
      [] OTHER -> prefixed_name(n) \in project.dataset_names

\* the pipelines that selected sessions in this call
Connected == {p \in ScheduleNames : StepsOf(p, "_sessions_to_process") # {}}

\* the pipeline named p produces ses ahead of the pipeline named d: it
\* selected the session and returned a report that the subjects iterator of d
\* waits for
ProducedAhead(p, d, ses) ==
    /\ ses \in SelectedWork(p)
    /\ StepsOf(p, "return report") # {}
    /\ node_name(d, "subjects") \in Downstream({node_name(p, "report")})

VisitInputProducedAhead ==
    /\ Completed
    /\ reprocess = "False"
    /\ pipeline_name = "warp"
    /\ \E ses \in SelectedWork("warp") :
          /\ ~Archived("visit_tmpl", ses)
          /\ Archived("proj_atlas", ses)
          /\ ProducedAhead("atlas", "warp", ses)

\* C30: all through a call, every entry of connected_prereqs is kept under
\* the name of its pipeline and holds a report, no name has two entries, no
\* entry is taken out or replaced, and an entry comes in only with the step
\* by which a prerequisite returns its report to its caller: it is the entry
\* of that prerequisite and of its report node, under a name that had no
\* entry.  A prerequisite that returns None leaves the dict as it is.
C30_EntriesOfConnectedPrereqs ==
    [][/\ \A e \in connected_prereqs' :
             /\ e[2].name = e[1]
             /\ e[3] # <<NONE>>
             /\ \A f \in connected_prereqs' : f[1] = e[1] => f = e
       /\ connected_prereqs \subseteq connected_prereqs'
       /\ \A e \in connected_prereqs' \ connected_prereqs :
             /\ Depth > 1
             /\ log' = Append(log, Step("return report"))
             /\ e = <<Top.pipeline.name, Top.pipeline,
                      node_name(Top.pipeline.name, "report")>>
             /\ \A f \in connected_prereqs : f[1] # e[1]
       /\ (Depth > 1 /\ log' = Append(log, Step("return None")))
             => connected_prereqs' = connected_prereqs]_vars

\* C30 (witness): in a call of stats, prep had nothing to process each time
\* it was asked for and has no entry, and extract, which returned a report,
\* has one
C30_SkippedAndEntered ==
    /\ pipeline_name = "stats"
    /\ Depth = 1
    /\ \E i \in StepsOf("prep", "return None") : log[i][1] = 2
    /\ \E i \in StepsOf("prep", "return None") : log[i][1] = 3
    /\ {e[1] : e \in connected_prereqs} = {"extract"}

====
